---- MODULE Spec2Model ----
(***************************************************************************)
(* Bio Commander rules engine: the Game, Player, Zone and Unit components  *)
(* and the three systems join_game, expand_zone and play.                  *)
(*                                                                         *)
(* A system runs on working copies of the components it is handed          *)
(* (ctx.accounts) and hands them back only through Ok(ctx.accounts); on    *)
(* Err nothing is handed back and the stored components stay as they were. *)
(* Each handler below is the whole Rust function, statement by statement,  *)
(* and returns the working copies as they are at the return, so that a     *)
(* mutation made before a late validation is visible.                      *)
(*                                                                         *)
(* Fields no system ever reads or writes are left out of the records:      *)
(* Game.game_id/map_width/map_height/turn_time_limit/last_turn_timestamp,  *)
(* Player.research_points/special_bonuses, Zone.connected_zones.           *)
(***************************************************************************)
EXTENDS Integers, Sequences, FiniteSets, TLC

VARIABLES game, players, zones, units, last

vars == <<game, players, zones, units, last>>

\* ------------------------------------------------------------------ bounds

\* EndTurn is taken only while turn_number is below this.
MaxTurns == 2

\* SpawnUnit and Replication are taken only while total_units stays within this.
MaxUnits == 2

\* An expansion is taken only while the expansions made, counted from what they
\* raise (total_zones, infection_level, immune_response_level), stay within this.
MaxExpansions == 2

\* --------------------------------------------------------- program constants

GridSize == 16
MaxZones == 64
UnitTypeCount == 12
MaxLevel == 100
ZoneResourceCap == 1000
ZoneStemCap == 100
U16 == 65536

\* Pubkey::default(): the "unset" identity.
NoKey == "default"

\* The identities that sign calls.
Identities == {"A", "B"}

\* ------------------------------------------------------------------ helpers

Min(a, b) == IF a <= b THEN a ELSE b

Abs(a) == IF a < 0 THEN -a ELSE a

\* u16/u32/u64 saturating_sub
SatSub(a, b) == IF a >= b THEN a - b ELSE 0

\* Option<T>: <<>> is None, <<v>> is Some(v).
None == <<>>

Some(v) == <<v>>

IsSome(o) == Len(o) = 1

\* ---------------------------------------------------------------- GameState

WaitingForPlayers == [tag |-> "WaitingForPlayers", winner |-> "-"]

Active == [tag |-> "Active", winner |-> "-"]

Paused == [tag |-> "Paused", winner |-> "-"]

Finished(w) == [tag |-> "Finished", winner |-> w]

\* --------------------------------------------------------------------- Game

GameDefault ==
    [ player1 |-> NoKey, player2 |-> NoKey,
      current_turn |-> 1, turn_number |-> 0,
      total_zones |-> 16,
      game_state |-> WaitingForPlayers,
      winner |-> NoKey,
      infection_level |-> 20, immune_response_level |-> 30 ]

\* A variant that lets either seated player act whatever current_turn says.
is_player_turn_AnySeat(g, player) == player \in {g.player1, g.player2}

is_player_turn(g, player) ==
    CASE g.current_turn = 1 -> g.player1 = player
      [] g.current_turn = 2 -> g.player2 = player
      [] OTHER -> FALSE

\* A variant that counts current_turn up instead of flipping it.
switch_turn_CountUp(g) ==
    [g EXCEPT !.current_turn = g.current_turn + 1,
              !.turn_number = g.turn_number + 1]

switch_turn(g) ==
    [g EXCEPT !.current_turn = IF g.current_turn = 1 THEN 2 ELSE 1,
              !.turn_number = g.turn_number + 1]

\* A variant that also takes a finished game for an active one.
is_game_active_OrFinished(g) == g.game_state.tag \in {"Active", "Finished"}

is_game_active(g) == g.game_state.tag = "Active"

\* A variant that pauses the game where it should finish it.
end_game_Pause(g, w) == [g EXCEPT !.game_state = Paused]

end_game(g, w) ==
    LET winner_pubkey == CASE w = "Player1" -> g.player1
                           [] w = "Player2" -> g.player2
                           [] OTHER -> NoKey
    IN [g EXCEPT !.game_state = Finished(w), !.winner = winner_pubkey]

\* (level as i16 + delta as i16).clamp(0, 100)
ClampLevel(v) == IF v < 0 THEN 0 ELSE IF v > MaxLevel THEN MaxLevel ELSE v

update_infection_level(g, delta) ==
    [g EXCEPT !.infection_level = ClampLevel(g.infection_level + delta)]

\* A variant that adds the delta without clamping.
update_immune_response_level_NoClamp(g, delta) ==
    [g EXCEPT !.immune_response_level = g.immune_response_level + delta]

update_immune_response_level(g, delta) ==
    [g EXCEPT !.immune_response_level = ClampLevel(g.immune_response_level + delta)]

\* ------------------------------------------------------------------- Player

PlayerDefault ==
    [ player_id |-> 1, player_key |-> NoKey,
      energy_reserves |-> 1000, antibody_reserves |-> 500,
      stem_cell_reserves |-> 100, nutrient_reserves |-> 750,
      controlled_zones |-> 0, total_units |-> 0,
      faction |-> "ImmuneSystem",
      unlocked_units |-> [i \in 0..(UnitTypeCount - 1) |-> i \in {0, 6}] ]

\* A cost or yield: <<energy, antibodies, stem_cells, nutrients>>.
\* A variant that lets every cost pass.
can_afford_Always(p, c) == TRUE

can_afford(p, c) ==
    /\ p.energy_reserves >= c[1]
    /\ p.antibody_reserves >= c[2]
    /\ p.stem_cell_reserves >= c[3]
    /\ p.nutrient_reserves >= c[4]

spend_resources(p, c) ==
    IF can_afford(p, c)
    THEN [p EXCEPT !.energy_reserves = @ - c[1],
                   !.antibody_reserves = @ - c[2],
                   !.stem_cell_reserves = @ - c[3],
                   !.nutrient_reserves = @ - c[4]]
    ELSE p

\* saturating_add on u64: the cap of 2^64 - 1 is far above every reachable sum.
add_resources(p, c) ==
    [p EXCEPT !.energy_reserves = @ + c[1],
              !.antibody_reserves = @ + c[2],
              !.stem_cell_reserves = @ + c[3],
              !.nutrient_reserves = @ + c[4]]

is_unit_unlocked(p, i) ==
    IF i < UnitTypeCount THEN p.unlocked_units[i] ELSE FALSE

unlock_unit(p, i) ==
    IF i < UnitTypeCount THEN [p EXCEPT !.unlocked_units[i] = TRUE] ELSE p

\* --------------------------------------------------------------------- Zone

\* grid: a function from the occupied cells <<x, y>> to their content; a cell
\* outside its domain is None.
ZoneDefault ==
    [ zone_id |-> 0, zone_type |-> "Tissue", x |-> 0, y |-> 0,
      owner |-> NoKey, grid |-> <<>>,
      energy |-> 100, antibodies |-> 50, stem_cells |-> 10, nutrients |-> 75,
      unit_count |-> 0, is_border_zone |-> FALSE, is_controlled |-> FALSE ]

get_resource_generation(zt) ==
    CASE zt = "Circulatory" -> <<10, 5, 2, 8>>
      [] zt = "Tissue" -> <<5, 15, 1, 10>>
      [] zt = "Lymphatic" -> <<8, 20, 5, 5>>
      [] zt = "Barrier" -> <<3, 25, 1, 3>>
      [] zt = "Organ" -> <<15, 10, 3, 15>>

get_defense_bonus(zt) ==
    CASE zt = "Circulatory" -> 0
      [] zt = "Tissue" -> 2
      [] zt = "Lymphatic" -> 3
      [] zt = "Barrier" -> 5
      [] zt = "Organ" -> 1

CellIsNone(z, x, y) == <<x, y>> \notin DOMAIN z.grid

\* zone.grid[x][y] = Some(c)
PutCell(z, x, y, c) ==
    [z EXCEPT !.grid = [q \in (DOMAIN z.grid) \cup {<<x, y>>} |->
                            IF q = <<x, y>> THEN c ELSE z.grid[q]]]

\* zone.grid[x][y] = None
ClearCell(z, x, y) ==
    IF (DOMAIN z.grid) \ {<<x, y>>} = {}
    THEN [z EXCEPT !.grid = <<>>]
    ELSE [z EXCEPT !.grid = [q \in (DOMAIN z.grid) \ {<<x, y>>} |-> z.grid[q]]]

ImmuneCell(id, h) == [tag |-> "ImmuneCell", unit_id |-> id, health |-> h]

Pathogen(id, h) == [tag |-> "Pathogen", unit_id |-> id, health |-> h]

Obstacle == [tag |-> "Obstacle", unit_id |-> 0, health |-> 0]

\* --------------------------------------------------------------------- Unit

UnitTypes ==
    << "TCell", "BCell", "Macrophage", "NeutrophilCell", "DendriticCell",
       "NaturalKillerCell",
       "Virus", "Bacteria", "Fungus", "Parasite", "CancerCell", "Toxin" >>

\* <<health, attack, defense, movement_range, energy_cost>>
get_base_stats(ut) ==
    CASE ut = "TCell" -> <<80, 15, 10, 3, 20>>
      [] ut = "BCell" -> <<60, 8, 8, 2, 25>>
      [] ut = "Macrophage" -> <<120, 20, 15, 2, 30>>
      [] ut = "NeutrophilCell" -> <<70, 18, 8, 4, 15>>
      [] ut = "DendriticCell" -> <<50, 5, 12, 3, 35>>
      [] ut = "NaturalKillerCell" -> <<90, 25, 10, 3, 40>>
      [] ut = "Virus" -> <<40, 12, 5, 4, 10>>
      [] ut = "Bacteria" -> <<60, 15, 8, 2, 15>>
      [] ut = "Fungus" -> <<80, 10, 12, 1, 20>>
      [] ut = "Parasite" -> <<70, 18, 6, 3, 25>>
      [] ut = "CancerCell" -> <<100, 20, 10, 2, 30>>
      [] ut = "Toxin" -> <<30, 30, 2, 5, 5>>

get_default_abilities(ut) ==
    CASE ut = "TCell" -> <<"CytokineRelease", "MemoryResponse", "None">>
      [] ut = "BCell" -> <<"AntibodyProduction", "MemoryResponse", "None">>
      [] ut = "Macrophage" -> <<"Phagocytosis", "CytokineRelease", "None">>
      [] ut = "NeutrophilCell" -> <<"Phagocytosis", "Infiltration", "None">>
      [] ut = "DendriticCell" -> <<"CytokineRelease", "Infiltration", "None">>
      [] ut = "NaturalKillerCell" -> <<"CytokineRelease", "ZoneHealing", "None">>
      [] ut = "Virus" -> <<"Replication", "ImmuneEvasion", "None">>
      [] ut = "Bacteria" -> <<"Replication", "ToxinRelease", "None">>
      [] ut = "Fungus" -> <<"Replication", "ResourceDrain", "None">>
      [] ut = "Parasite" -> <<"ImmuneEvasion", "ResourceDrain", "None">>
      [] ut = "CancerCell" -> <<"Replication", "Metastasis", "None">>
      [] ut = "Toxin" -> <<"ToxinRelease", "ResourceDrain", "None">>

is_immune_cell(ut) ==
    ut \in {"TCell", "BCell", "Macrophage", "NeutrophilCell", "DendriticCell",
            "NaturalKillerCell"}

\* A Unit record of type ut with that type's base stats and default abilities
\* (Unit::default is UnitOf("TCell", 0, 0, 0, 0, NoKey)).
UnitOf(ut, id, zid, x, y, owner) ==
    LET s == get_base_stats(ut)
    IN [ unit_id |-> id, unit_type |-> ut, zone_id |-> zid, x |-> x, y |-> y,
         health |-> s[1], max_health |-> s[1], attack |-> s[2], defense |-> s[3],
         movement_range |-> s[4], owner |-> owner,
         special_abilities |-> get_default_abilities(ut),
         is_active |-> TRUE, energy_cost |-> s[5] ]

UnitDefault == UnitOf("TCell", 0, 0, 0, 0, NoKey)

\* ---------------------------------------------------------------- join_game

\* join_game::execute. zopt is Option<Zone>.
JoinResult(ok, err, g, p, zopt) ==
    [ok |-> ok, err |-> err, game |-> g, player |-> p, zone |-> zopt]

JoinSetup(g1, p, zopt, authority, player_id, faction) ==
    LET p1 == [p EXCEPT !.player_id = player_id,
                        !.player_key = authority,
                        !.faction = faction]
        p2 == IF faction = "ImmuneSystem"
              THEN [p1 EXCEPT !.energy_reserves = 1200,
                              !.antibody_reserves = 800,
                              !.stem_cell_reserves = 150,
                              !.nutrient_reserves = 900]
              ELSE [p1 EXCEPT !.energy_reserves = 1500,
                              !.antibody_reserves = 200,
                              !.stem_cell_reserves = 50,
                              !.nutrient_reserves = 1200]
        p3 == IF faction = "ImmuneSystem"
              THEN unlock_unit(unlock_unit(unlock_unit(p2, 0), 1), 2)
              ELSE unlock_unit(unlock_unit(unlock_unit(p2, 6), 7), 8)
    IN IF g1.player1 # NoKey /\ g1.player2 # NoKey
       THEN LET g2 == [g1 EXCEPT !.game_state = Active, !.current_turn = 1]
            IN IF IsSome(zopt)
               THEN LET z1 == [zopt[1] EXCEPT
                                 !.zone_id = 0, !.x = 2, !.y = 2,
                                 !.owner = authority,
                                 !.is_controlled = TRUE,
                                 !.zone_type = IF faction = "ImmuneSystem"
                                               THEN "Lymphatic" ELSE "Tissue"]
                    IN JoinResult(TRUE, "Ok", g2,
                                  [p3 EXCEPT !.controlled_zones = 1], Some(z1))
               ELSE JoinResult(TRUE, "Ok", g2, p3, zopt)
       ELSE JoinResult(TRUE, "Ok", g1, p3, zopt)

\* A variant that seats every joiner in seat 1.
JoinSeat_AlwaysFirst(g, authority) == [g EXCEPT !.player1 = authority]

JoinSeat(g, authority) ==
    IF g.player1 = NoKey THEN [g EXCEPT !.player1 = authority]
    ELSE [g EXCEPT !.player2 = authority]

JoinExec(g, p, zopt, authority, faction_arg) ==
    IF g.game_state # WaitingForPlayers
    THEN JoinResult(FALSE, "GameAlreadyStarted", g, p, zopt)
    ELSE IF ~(g.player1 # authority /\ g.player2 # authority)
    THEN JoinResult(FALSE, "PlayerAlreadyInGame", g, p, zopt)
    ELSE IF g.player1 # NoKey /\ g.player2 # NoKey
    THEN JoinResult(FALSE, "GameFull", g, p, zopt)
    ELSE LET g1 == JoinSeat(g, authority)
             player_id == IF g.player1 = NoKey THEN 1 ELSE 2
         IN IF faction_arg \notin {0, 1}
            THEN JoinResult(FALSE, "InvalidFaction", g1, p, zopt)
            ELSE JoinSetup(g1, p, zopt, authority, player_id,
                           IF faction_arg = 0 THEN "ImmuneSystem" ELSE "Pathogen")

\* -------------------------------------------------------------- expand_zone

ExpandResult(ok, err, g, p, t) ==
    [ok |-> ok, err |-> err, game |-> g, player |-> p, target |-> t]

\* A variant that also takes diagonal neighbours and the zone itself.
is_adjacent_zone_Diagonal(zone1, zone2) ==
    Abs(zone1.x - zone2.x) <= 1 /\ Abs(zone1.y - zone2.y) <= 1

is_adjacent_zone(zone1, zone2) ==
    LET dx == Abs(zone1.x - zone2.x)
        dy == Abs(zone1.y - zone2.y)
    IN (dx = 1 /\ dy = 0) \/ (dx = 0 /\ dy = 1)

calculate_infection_spread_cost(source, target) ==
    LET zone_resistance == CASE target.zone_type = "Barrier" -> 3
                             [] target.zone_type = "Lymphatic" -> 2
                             [] OTHER -> 1
        adjusted_cost == 100 * zone_resistance
    IN <<adjusted_cost * 2, 0, 0, adjusted_cost>>

calculate_immune_response_cost(source, target) ==
    LET zone_difficulty == CASE target.zone_type = "Tissue" -> 2
                             [] target.zone_type = "Organ" -> 3
                             [] OTHER -> 1
        adjusted_cost == 80 * zone_difficulty
    IN <<adjusted_cost, adjusted_cost * 2, adjusted_cost \div 4, adjusted_cost \div 2>>

\* (base_cost as f64 * faction_modifier) as u64: for the five base costs the
\* product with 1.2 is exact in f64, so the truncation is that of base * 6 / 5.
calculate_zone_creation_cost(zt, faction) ==
    LET base_cost == CASE zt = "Circulatory" -> 200
                       [] zt = "Tissue" -> 150
                       [] zt = "Lymphatic" -> 300
                       [] zt = "Barrier" -> 400
                       [] zt = "Organ" -> 500
        adjusted_cost == IF faction = "ImmuneSystem" THEN base_cost
                         ELSE (base_cost * 6) \div 5
    IN <<adjusted_cost, adjusted_cost \div 2, adjusted_cost \div 10,
         adjusted_cost \div 3>>

calculate_conquest_cost(source, target) ==
    LET defense_multiplier == CASE target.zone_type = "Barrier" -> 2
                                [] target.zone_type = "Organ" -> 3
                                [] target.zone_type = "Lymphatic" -> 2
                                [] OTHER -> 1
        adjusted_cost == 250 * defense_multiplier
    IN <<adjusted_cost * 3, adjusted_cost, adjusted_cost \div 5, adjusted_cost * 2>>

\* A variant that raises the infection level before it validates adjacency.
infection_spread_expansion_LevelFirst(g, p, s, t) ==
    IF p.faction # "Pathogen"
    THEN ExpandResult(FALSE, "ExpansionNotPossible", g, p, t)
    ELSE IF s.owner # p.player_key
    THEN ExpandResult(FALSE, "NotInGame", g, p, t)
    ELSE LET g1 == update_infection_level(g, 5)
         IN IF ~is_adjacent_zone(s, t)
            THEN ExpandResult(FALSE, "ZoneNotAdjacent", g1, p, t)
            ELSE LET cost == calculate_infection_spread_cost(s, t)
                 IN IF ~can_afford(p, cost)
                    THEN ExpandResult(FALSE, "InsufficientResources", g1, p, t)
                    ELSE LET p1 == spend_resources(p, cost)
                         IN IF t.owner = NoKey
                            THEN ExpandResult(TRUE, "Ok", g1,
                                   [p1 EXCEPT !.controlled_zones = @ + 1],
                                   [t EXCEPT !.owner = p1.player_key,
                                             !.is_controlled = TRUE,
                                             !.zone_type = "Tissue"])
                            ELSE ExpandResult(TRUE, "Ok", g1, p1,
                                   [t EXCEPT !.energy = SatSub(@, 50),
                                             !.nutrients = SatSub(@, 30)])

\* A variant that takes an owned target over as it takes an unowned one.
infection_spread_expansion_TakeOwned(g, p, s, t) ==
    IF p.faction # "Pathogen"
    THEN ExpandResult(FALSE, "ExpansionNotPossible", g, p, t)
    ELSE IF s.owner # p.player_key
    THEN ExpandResult(FALSE, "NotInGame", g, p, t)
    ELSE IF ~is_adjacent_zone(s, t)
    THEN ExpandResult(FALSE, "ZoneNotAdjacent", g, p, t)
    ELSE LET cost == calculate_infection_spread_cost(s, t)
         IN IF ~can_afford(p, cost)
            THEN ExpandResult(FALSE, "InsufficientResources", g, p, t)
            ELSE ExpandResult(TRUE, "Ok", update_infection_level(g, 5),
                   [spend_resources(p, cost) EXCEPT !.controlled_zones = @ + 1],
                   [t EXCEPT !.owner = p.player_key,
                             !.is_controlled = TRUE,
                             !.zone_type = "Tissue"])

infection_spread_expansion(g, p, s, t) ==
    IF p.faction # "Pathogen"
    THEN ExpandResult(FALSE, "ExpansionNotPossible", g, p, t)
    ELSE IF s.owner # p.player_key
    THEN ExpandResult(FALSE, "NotInGame", g, p, t)
    ELSE IF ~is_adjacent_zone(s, t)
    THEN ExpandResult(FALSE, "ZoneNotAdjacent", g, p, t)
    ELSE LET cost == calculate_infection_spread_cost(s, t)
         IN IF ~can_afford(p, cost)
            THEN ExpandResult(FALSE, "InsufficientResources", g, p, t)
            ELSE LET p1 == spend_resources(p, cost)
                     g1 == update_infection_level(g, 5)
                 IN IF t.owner = NoKey
                    THEN ExpandResult(TRUE, "Ok", g1,
                           [p1 EXCEPT !.controlled_zones = @ + 1],
                           [t EXCEPT !.owner = p1.player_key,
                                     !.is_controlled = TRUE,
                                     !.zone_type = "Tissue"])
                    ELSE ExpandResult(TRUE, "Ok", g1, p1,
                           [t EXCEPT !.energy = SatSub(@, 50),
                                     !.nutrients = SatSub(@, 30)])

immune_response_expansion(g, p, s, t) ==
    IF p.faction # "ImmuneSystem"
    THEN ExpandResult(FALSE, "ExpansionNotPossible", g, p, t)
    ELSE IF s.owner # p.player_key
    THEN ExpandResult(FALSE, "NotInGame", g, p, t)
    ELSE IF ~is_adjacent_zone(s, t)
    THEN ExpandResult(FALSE, "ZoneNotAdjacent", g, p, t)
    ELSE LET cost == calculate_immune_response_cost(s, t)
         IN IF ~can_afford(p, cost)
            THEN ExpandResult(FALSE, "InsufficientResources", g, p, t)
            ELSE LET p1 == spend_resources(p, cost)
                     g1 == update_immune_response_level(g, 5)
                 IN IF t.owner = NoKey
                    THEN ExpandResult(TRUE, "Ok", g1,
                           [p1 EXCEPT !.controlled_zones = @ + 1],
                           [t EXCEPT !.owner = p1.player_key,
                                     !.is_controlled = TRUE,
                                     !.zone_type = "Lymphatic"])
                    ELSE ExpandResult(TRUE, "Ok", g1, p1,
                           [t EXCEPT !.antibodies = Min(@ + 100, ZoneResourceCap),
                                     !.energy = Min(@ + 50, ZoneResourceCap)])

ZoneTypeOfIndex(i) ==
    CASE i = 0 -> "Circulatory"
      [] i = 1 -> "Tissue"
      [] i = 2 -> "Lymphatic"
      [] i = 3 -> "Barrier"
      [] i = 4 -> "Organ"
      [] OTHER -> "Invalid"

\* A variant without the limit on total_zones.
create_new_zone_NoLimit(g, p, t, zone_type_index) ==
    IF t.owner # NoKey
    THEN ExpandResult(FALSE, "ZoneAlreadyControlled", g, p, t)
    ELSE IF ZoneTypeOfIndex(zone_type_index) = "Invalid"
    THEN ExpandResult(FALSE, "InvalidZoneType", g, p, t)
    ELSE LET zt == ZoneTypeOfIndex(zone_type_index)
             cost == calculate_zone_creation_cost(zt, p.faction)
         IN IF ~can_afford(p, cost)
            THEN ExpandResult(FALSE, "InsufficientResources", g, p, t)
            ELSE LET p1 == spend_resources(p, cost)
                     gen == get_resource_generation(zt)
                 IN ExpandResult(TRUE, "Ok",
                      [g EXCEPT !.total_zones = @ + 1],
                      [p1 EXCEPT !.controlled_zones = @ + 1],
                      [t EXCEPT !.zone_id = g.total_zones,
                                !.zone_type = zt,
                                !.owner = p1.player_key,
                                !.is_controlled = TRUE,
                                !.is_border_zone = TRUE,
                                !.energy = gen[1] * 5,
                                !.antibodies = gen[2] * 5,
                                !.stem_cells = gen[3] * 5,
                                !.nutrients = gen[4] * 5])

create_new_zone(g, p, t, zone_type_index) ==
    IF ~(g.total_zones < MaxZones)
    THEN ExpandResult(FALSE, "MaxZonesReached", g, p, t)
    ELSE IF t.owner # NoKey
    THEN ExpandResult(FALSE, "ZoneAlreadyControlled", g, p, t)
    ELSE IF ZoneTypeOfIndex(zone_type_index) = "Invalid"
    THEN ExpandResult(FALSE, "InvalidZoneType", g, p, t)
    ELSE LET zt == ZoneTypeOfIndex(zone_type_index)
             cost == calculate_zone_creation_cost(zt, p.faction)
         IN IF ~can_afford(p, cost)
            THEN ExpandResult(FALSE, "InsufficientResources", g, p, t)
            ELSE LET p1 == spend_resources(p, cost)
                     gen == get_resource_generation(zt)
                 IN ExpandResult(TRUE, "Ok",
                      [g EXCEPT !.total_zones = @ + 1],
                      [p1 EXCEPT !.controlled_zones = @ + 1],
                      [t EXCEPT !.zone_id = g.total_zones,
                                !.zone_type = zt,
                                !.owner = p1.player_key,
                                !.is_controlled = TRUE,
                                !.is_border_zone = TRUE,
                                !.energy = gen[1] * 5,
                                !.antibodies = gen[2] * 5,
                                !.stem_cells = gen[3] * 5,
                                !.nutrients = gen[4] * 5])

\* A variant that leaves the conquered zone's counters as they were.
conquer_zone_NoAttrition(g, p, s, t) ==
    IF s.owner # p.player_key
    THEN ExpandResult(FALSE, "NotInGame", g, p, t)
    ELSE IF ~(t.owner # NoKey /\ t.owner # p.player_key)
    THEN ExpandResult(FALSE, "ZoneAlreadyControlled", g, p, t)
    ELSE IF ~is_adjacent_zone(s, t)
    THEN ExpandResult(FALSE, "ZoneNotAdjacent", g, p, t)
    ELSE LET cost == calculate_conquest_cost(s, t)
         IN IF ~can_afford(p, cost)
            THEN ExpandResult(FALSE, "InsufficientResources", g, p, t)
            ELSE LET p1 == spend_resources(p, cost)
                 IN ExpandResult(TRUE, "Ok",
                      IF p1.faction = "Pathogen"
                      THEN update_infection_level(g, 3)
                      ELSE update_immune_response_level(g, 3),
                      [p1 EXCEPT !.controlled_zones = @ + 1],
                      [t EXCEPT !.owner = p1.player_key,
                                !.is_controlled = TRUE])

conquer_zone(g, p, s, t) ==
    IF s.owner # p.player_key
    THEN ExpandResult(FALSE, "NotInGame", g, p, t)
    ELSE IF ~(t.owner # NoKey /\ t.owner # p.player_key)
    THEN ExpandResult(FALSE, "ZoneAlreadyControlled", g, p, t)
    ELSE IF ~is_adjacent_zone(s, t)
    THEN ExpandResult(FALSE, "ZoneNotAdjacent", g, p, t)
    ELSE LET cost == calculate_conquest_cost(s, t)
         IN IF ~can_afford(p, cost)
            THEN ExpandResult(FALSE, "InsufficientResources", g, p, t)
            ELSE LET p1 == spend_resources(p, cost)
                 IN ExpandResult(TRUE, "Ok",
                      IF p1.faction = "Pathogen"
                      THEN update_infection_level(g, 3)
                      ELSE update_immune_response_level(g, 3),
                      [p1 EXCEPT !.controlled_zones = @ + 1],
                      [t EXCEPT !.owner = p1.player_key,
                                !.is_controlled = TRUE,
                                !.energy = @ \div 2,
                                !.nutrients = @ \div 2,
                                !.unit_count = @ \div 2])

ExpansionTypes ==
    {"InfectionSpread", "ImmuneResponse", "CreateNewZone", "ConquerZone"}

\* The validation at the entry of expand_zone::execute and of play::execute.
\* A variant that does not look at game_state.
Authorize_AnyState(g, p, authority) ==
    IF ~is_player_turn(g, authority) THEN "NotPlayersTurn"
    ELSE IF p.player_key # authority THEN "NotInGame"
    ELSE "Ok"

Authorize(g, p, authority) ==
    IF ~is_player_turn(g, authority) THEN "NotPlayersTurn"
    ELSE IF ~is_game_active(g) THEN "NotActive"
    ELSE IF p.player_key # authority THEN "NotInGame"
    ELSE "Ok"

\* The match on args.expansion_type in expand_zone::execute.
ExpandDispatch(g, p, s, t, expansion_type, new_zone_type) ==
    CASE expansion_type = "InfectionSpread" ->
           infection_spread_expansion(g, p, s, t)
      [] expansion_type = "ImmuneResponse" ->
           immune_response_expansion(g, p, s, t)
      [] expansion_type = "CreateNewZone" ->
           create_new_zone(g, p, t, new_zone_type)
      [] expansion_type = "ConquerZone" ->
           conquer_zone(g, p, s, t)

\* expand_zone::execute. The source zone is borrowed read-only (&Zone): the
\* working copy handed back is the one handed in.
ExpandExec(g, p, s, t, authority, expansion_type, new_zone_type) ==
    LET r == IF Authorize(g, p, authority) # "Ok"
             THEN ExpandResult(FALSE, Authorize(g, p, authority), g, p, t)
             ELSE ExpandDispatch(g, p, s, t, expansion_type, new_zone_type)
    IN [ok |-> r.ok, err |-> r.err, game |-> r.game, player |-> r.player,
        source |-> s, target |-> r.target]

\* --------------------------------------------------------------------- play

PlayResult(ok, err, g, p, z, uopt) ==
    [ok |-> ok, err |-> err, game |-> g, player |-> p, zone |-> z, unit |-> uopt]

\* A variant that charges the base cost in every zone type.
calculate_spawn_cost_AnyZone(ut, zt) ==
    LET base_cost == get_base_stats(ut)[5]
    IN IF is_immune_cell(ut)
       THEN <<base_cost, base_cost \div 2, base_cost \div 10, base_cost \div 3>>
       ELSE <<base_cost * 2, 0, 0, base_cost>>

\* (base_cost as f64 * zone_multiplier) as u64: for the twelve base costs the
\* products with 0.8 and 1.5 truncate as base * 8 / 10 and base * 3 / 2 do.
calculate_spawn_cost(ut, zt) ==
    LET base_cost == get_base_stats(ut)[5]
        adjusted_cost == CASE zt = "Lymphatic" -> (base_cost * 8) \div 10
                           [] zt = "Barrier" -> (base_cost * 3) \div 2
                           [] OTHER -> base_cost
    IN IF is_immune_cell(ut)
       THEN <<adjusted_cost, adjusted_cost \div 2, adjusted_cost \div 10,
              adjusted_cost \div 3>>
       ELSE <<adjusted_cost * 2, 0, 0, adjusted_cost>>

spawn_unit(g, p, z, uopt, unit_type_index, x, y) ==
    IF ~(x < GridSize /\ y < GridSize)
    THEN PlayResult(FALSE, "PositionOutOfBounds", g, p, z, uopt)
    ELSE IF ~CellIsNone(z, x, y)
    THEN PlayResult(FALSE, "PositionOccupied", g, p, z, uopt)
    ELSE IF z.owner # p.player_key
    THEN PlayResult(FALSE, "ZoneNotControlled", g, p, z, uopt)
    ELSE IF ~is_unit_unlocked(p, unit_type_index)
    THEN PlayResult(FALSE, "UnitTypeNotUnlocked", g, p, z, uopt)
    ELSE IF unit_type_index >= UnitTypeCount
    THEN PlayResult(FALSE, "InvalidAction", g, p, z, uopt)
    ELSE LET ut == UnitTypes[unit_type_index + 1]
             health == get_base_stats(ut)[1]
             spawn_cost == calculate_spawn_cost(ut, z.zone_type)
         IN IF ~can_afford(p, spawn_cost)
            THEN PlayResult(FALSE, "InsufficientResources", g, p, z, uopt)
            ELSE LET p1 == spend_resources(p, spawn_cost)
                     unit_id == z.unit_count + (z.zone_id * 1000)
                     z1 == PutCell(z, x, y,
                                   IF is_immune_cell(ut)
                                   THEN ImmuneCell(unit_id, health)
                                   ELSE Pathogen(unit_id, health))
                 IN PlayResult(TRUE, "Ok", g,
                               [p1 EXCEPT !.total_units = @ + 1],
                               [z1 EXCEPT !.unit_count = @ + 1], uopt)

\* A variant that leaves the Unit record's position as it was.
move_unit_KeepRecord(g, p, z, u, new_x, new_y) ==
    IF ~(new_x < GridSize /\ new_y < GridSize)
    THEN PlayResult(FALSE, "PositionOutOfBounds", g, p, z, Some(u))
    ELSE IF ~CellIsNone(z, new_x, new_y)
    THEN PlayResult(FALSE, "PositionOccupied", g, p, z, Some(u))
    ELSE LET distance == Abs(new_x - u.x) + Abs(new_y - u.y)
         IN IF ~(distance <= u.movement_range)
            THEN PlayResult(FALSE, "InvalidMove", g, p, z, Some(u))
            ELSE LET z1 == ClearCell(z, u.x, u.y)
                     cell_content == IF is_immune_cell(u.unit_type)
                                     THEN ImmuneCell(u.unit_id, u.health)
                                     ELSE Pathogen(u.unit_id, u.health)
                 IN PlayResult(TRUE, "Ok", g, p,
                               PutCell(z1, new_x, new_y, cell_content), Some(u))

\* A variant that clears the unit's old cell before it validates the distance.
move_unit_ClearFirst(g, p, z, u, new_x, new_y) ==
    IF ~(new_x < GridSize /\ new_y < GridSize)
    THEN PlayResult(FALSE, "PositionOutOfBounds", g, p, z, Some(u))
    ELSE IF ~CellIsNone(z, new_x, new_y)
    THEN PlayResult(FALSE, "PositionOccupied", g, p, z, Some(u))
    ELSE LET distance == Abs(new_x - u.x) + Abs(new_y - u.y)
             z1 == ClearCell(z, u.x, u.y)
         IN IF ~(distance <= u.movement_range)
            THEN PlayResult(FALSE, "InvalidMove", g, p, z1, Some(u))
            ELSE LET cell_content == IF is_immune_cell(u.unit_type)
                                     THEN ImmuneCell(u.unit_id, u.health)
                                     ELSE Pathogen(u.unit_id, u.health)
                 IN PlayResult(TRUE, "Ok", g, p,
                               PutCell(z1, new_x, new_y, cell_content),
                               Some([u EXCEPT !.x = new_x, !.y = new_y]))

move_unit(g, p, z, u, new_x, new_y) ==
    IF ~(new_x < GridSize /\ new_y < GridSize)
    THEN PlayResult(FALSE, "PositionOutOfBounds", g, p, z, Some(u))
    ELSE IF ~CellIsNone(z, new_x, new_y)
    THEN PlayResult(FALSE, "PositionOccupied", g, p, z, Some(u))
    ELSE LET distance == Abs(new_x - u.x) + Abs(new_y - u.y)
         IN IF ~(distance <= u.movement_range)
            THEN PlayResult(FALSE, "InvalidMove", g, p, z, Some(u))
            ELSE LET z1 == ClearCell(z, u.x, u.y)
                     cell_content == IF is_immune_cell(u.unit_type)
                                     THEN ImmuneCell(u.unit_id, u.health)
                                     ELSE Pathogen(u.unit_id, u.health)
                 IN PlayResult(TRUE, "Ok", g, p,
                               PutCell(z1, new_x, new_y, cell_content),
                               Some([u EXCEPT !.x = new_x, !.y = new_y]))

\* A variant that ignores the zone's defense bonus.
attack_position_NoBonus(g, p, z, u, target_x, target_y) ==
    IF ~(target_x < GridSize /\ target_y < GridSize)
    THEN PlayResult(FALSE, "PositionOutOfBounds", g, p, z, Some(u))
    ELSE IF CellIsNone(z, target_x, target_y)
    THEN PlayResult(TRUE, "Ok", g, p, z, Some(u))
    ELSE LET target == z.grid[<<target_x, target_y>>]
         IN IF target.tag \notin {"ImmuneCell", "Pathogen"}
            THEN PlayResult(FALSE, "InvalidAction", g, p, z, Some(u))
            ELSE LET health == SatSub(target.health, u.attack)
                 IN IF health = 0
                    THEN PlayResult(TRUE, "Ok", g, p,
                           [ClearCell(z, target_x, target_y) EXCEPT
                              !.unit_count = SatSub(@, 1)],
                           Some(u))
                    ELSE PlayResult(TRUE, "Ok", g, p,
                           PutCell(z, target_x, target_y,
                                   [target EXCEPT !.health = health]),
                           Some(u))

attack_position(g, p, z, u, target_x, target_y) ==
    IF ~(target_x < GridSize /\ target_y < GridSize)
    THEN PlayResult(FALSE, "PositionOutOfBounds", g, p, z, Some(u))
    ELSE IF CellIsNone(z, target_x, target_y)
    THEN PlayResult(TRUE, "Ok", g, p, z, Some(u))
    ELSE LET target == z.grid[<<target_x, target_y>>]
         IN IF target.tag \notin {"ImmuneCell", "Pathogen"}
            THEN PlayResult(FALSE, "InvalidAction", g, p, z, Some(u))
            ELSE LET damage == SatSub(u.attack, get_defense_bonus(z.zone_type))
                     health == SatSub(target.health, damage)
                 IN IF health = 0
                    THEN PlayResult(TRUE, "Ok", g, p,
                           [ClearCell(z, target_x, target_y) EXCEPT
                              !.unit_count = SatSub(@, 1)],
                           Some(u))
                    ELSE PlayResult(TRUE, "Ok", g, p,
                           PutCell(z, target_x, target_y,
                                   [target EXCEPT !.health = health]),
                           Some(u))

\* unit.special_abilities.get(ability_index).and_then(|a| *a)
AbilityAt(u, ability_index) ==
    IF ability_index < Len(u.special_abilities)
    THEN u.special_abilities[ability_index + 1]
    ELSE "None"

use_special_ability(g, p, z, u, ability_index) ==
    LET ability == AbilityAt(u, ability_index)
    IN CASE ability = "AntibodyProduction" ->
              PlayResult(TRUE, "Ok", g, add_resources(p, <<0, 50, 0, 0>>), z, Some(u))
         [] ability = "Phagocytosis" ->
              PlayResult(TRUE, "Ok", g, add_resources(p, <<10, 0, 0, 5>>), z,
                         Some([u EXCEPT !.health = Min(u.health + 20, u.max_health)]))
         [] ability = "Replication" ->
              PlayResult(TRUE, "Ok", g,
                         [p EXCEPT !.total_units = @ + 1],
                         [z EXCEPT !.unit_count = @ + 1], Some(u))
         [] ability = "ZoneHealing" ->
              PlayResult(TRUE, "Ok", g, p,
                         [z EXCEPT !.energy = Min(@ + 50, ZoneResourceCap),
                                   !.nutrients = Min(@ + 30, ZoneResourceCap)],
                         Some(u))
         [] OTHER -> PlayResult(TRUE, "Ok", g, p, z, Some(u))

\* A variant that produces resources whoever owns the zone.
end_turn_AnyOwner(g, p, z, uopt) ==
    LET gen == get_resource_generation(z.zone_type)
    IN PlayResult(TRUE, "Ok", switch_turn(g), add_resources(p, gen),
                  [z EXCEPT !.energy = Min(@ + gen[1], ZoneResourceCap),
                            !.antibodies = Min(@ + gen[2], ZoneResourceCap),
                            !.stem_cells = Min(@ + gen[3], ZoneStemCap),
                            !.nutrients = Min(@ + gen[4], ZoneResourceCap)],
                  uopt)

end_turn(g, p, z, uopt) ==
    LET gen == get_resource_generation(z.zone_type)
    IN IF z.owner = p.player_key
       THEN PlayResult(TRUE, "Ok", switch_turn(g), add_resources(p, gen),
                       [z EXCEPT !.energy = Min(@ + gen[1], ZoneResourceCap),
                                 !.antibodies = Min(@ + gen[2], ZoneResourceCap),
                                 !.stem_cells = Min(@ + gen[3], ZoneStemCap),
                                 !.nutrients = Min(@ + gen[4], ZoneResourceCap)],
                       uopt)
       ELSE PlayResult(TRUE, "Ok", switch_turn(g), p, z, uopt)

\* (game.total_zones * 3 / 4) as u16
WinThreshold(g) == ((g.total_zones * 3) \div 4) % U16

\* A variant that asks for strictly more zones than the threshold.
check_win_conditions_Strict(g, p) ==
    IF p.controlled_zones > WinThreshold(g)
    THEN end_game(g, CASE p.player_id = 1 -> "Player1"
                       [] p.player_id = 2 -> "Player2"
                       [] OTHER -> "Draw")
    ELSE g

check_win_conditions(g, p) ==
    IF p.controlled_zones >= WinThreshold(g)
    THEN end_game(g, CASE p.player_id = 1 -> "Player1"
                       [] p.player_id = 2 -> "Player2"
                       [] OTHER -> "Draw")
    ELSE g

ActionTypes ==
    {"SpawnUnit", "MoveUnit", "AttackPosition", "UseSpecialAbility", "EndTurn"}

\* The match on args.action in play::execute; an action that needs a unit and
\* is given none does nothing.
PlayDispatch(g, p, z, uopt, action, x, y, unit_type, ability_index) ==
    CASE action = "SpawnUnit" -> spawn_unit(g, p, z, uopt, unit_type, x, y)
      [] action = "MoveUnit" ->
           IF IsSome(uopt) THEN move_unit(g, p, z, uopt[1], x, y)
           ELSE PlayResult(TRUE, "Ok", g, p, z, uopt)
      [] action = "AttackPosition" ->
           IF IsSome(uopt) THEN attack_position(g, p, z, uopt[1], x, y)
           ELSE PlayResult(TRUE, "Ok", g, p, z, uopt)
      [] action = "UseSpecialAbility" ->
           IF IsSome(uopt) THEN use_special_ability(g, p, z, uopt[1], ability_index)
           ELSE PlayResult(TRUE, "Ok", g, p, z, uopt)
      [] action = "EndTurn" -> end_turn(g, p, z, uopt)

\* play::execute
PlayExec(g, p, z, uopt, authority, action, x, y, unit_type, ability_index) ==
    IF Authorize(g, p, authority) # "Ok"
    THEN PlayResult(FALSE, Authorize(g, p, authority), g, p, z, uopt)
    ELSE LET r == PlayDispatch(g, p, z, uopt, action, x, y, unit_type, ability_index)
         IN IF r.ok
            THEN [r EXCEPT !.game = check_win_conditions(r.game, r.player)]
            ELSE r

\* ------------------------------------------------------ the component store

\* The stored components, by record number; 0 stands for an optional component
\* that a call leaves out.
PlayerRecs == {1, 2}

ZoneRecs == {1, 2, 3}

UnitRecs == {1, 2}

\* The map as the host lays it out before the game: zone 1 is the centre slot,
\* zone 2 lies next to it and zone 3 next to zone 2; zone 1 holds an obstacle.
ZonesInit ==
    [r \in ZoneRecs |->
        CASE r = 1 -> [ZoneDefault EXCEPT !.zone_id = 0, !.x = 2, !.y = 2,
                                          !.grid = PutCell(ZoneDefault, 1, 0, Obstacle).grid]
          [] r = 2 -> [ZoneDefault EXCEPT !.zone_id = 1, !.x = 2, !.y = 3]
          [] r = 3 -> [ZoneDefault EXCEPT !.zone_id = 2, !.x = 3, !.y = 3,
                                          !.zone_type = "Barrier"]]

\* Unit records are made by the host: a default one, and a Virus far from the
\* origin of its grid.
UnitsInit ==
    [r \in UnitRecs |->
        CASE r = 1 -> UnitDefault
          [] r = 2 -> UnitOf("Virus", 7, 0, 9, 0, "B")]

\* ------------------------------------------------------------- the last call

\* The latest call that returned Ok: its system and variant, who signed it and
\* the records it was handed.
LastInit ==
    [ op |-> "Init", variant |-> "-", auth |-> "-",
      p |-> 0, z |-> 0, t |-> 0, u |-> 0 ]

Succeeded(op, variant, auth, p, z, t, u) ==
    [ op |-> op, variant |-> variant, auth |-> auth,
      p |-> p, z |-> z, t |-> t, u |-> u ]

\* ------------------------------------------------------------------- calls

\* A call is a record of what the caller chooses: the signer, the records handed
\* in and the arguments. The ...Run operators run a system on the stored
\* components the call names.

JoinCalls(StartZones, FactionArgs) ==
    [authority : Identities, pr : PlayerRecs, zr : StartZones \cup {0},
     faction : FactionArgs]

StartZoneOf(c) == IF c.zr = 0 THEN None ELSE Some(zones[c.zr])

JoinRun(c) == JoinExec(game, players[c.pr], StartZoneOf(c), c.authority, c.faction)

\* Only CreateNewZone reads new_zone_type.
ExpandCalls(ZonePairs, ZoneTypeArgs) ==
    [authority : Identities, pr : PlayerRecs, st : ZonePairs,
     expansion_type : ExpansionTypes \ {"CreateNewZone"}, new_zone_type : {0}]
    \cup [authority : Identities, pr : PlayerRecs, st : ZonePairs,
          expansion_type : {"CreateNewZone"}, new_zone_type : ZoneTypeArgs]

ExpandRun(c) ==
    ExpandExec(game, players[c.pr], zones[c.st[1]], zones[c.st[2]], c.authority,
               c.expansion_type, c.new_zone_type)

\* Only the arguments an action reads vary.
PlayCalls(PlayZones, Units, SpawnPositions, Positions, UnitTypeArgs, AbilityArgs) ==
    [authority : Identities, pr : PlayerRecs, zr : PlayZones,
     action : {"SpawnUnit"}, u : {0}, pos : SpawnPositions, unit_type : UnitTypeArgs,
     ability_index : {0}]
    \cup [authority : Identities, pr : PlayerRecs, zr : PlayZones,
          action : {"MoveUnit", "AttackPosition"}, u : Units \cup {0},
          pos : Positions, unit_type : {0}, ability_index : {0}]
    \cup [authority : Identities, pr : PlayerRecs, zr : PlayZones,
          action : {"UseSpecialAbility"}, u : Units \cup {0}, pos : {<<0, 0>>},
          unit_type : {0}, ability_index : AbilityArgs]
    \cup [authority : Identities, pr : PlayerRecs, zr : PlayZones,
          action : {"EndTurn"}, u : {0}, pos : {<<0, 0>>}, unit_type : {0},
          ability_index : {0}]

UnitOfCall(c) == IF c.u = 0 THEN None ELSE Some(units[c.u])

PlayRun(c) ==
    PlayExec(game, players[c.pr], zones[c.zr], UnitOfCall(c), c.authority,
             c.action, c.pos[1], c.pos[2], c.unit_type, c.ability_index)

\* ------------------------------------------------------------------ actions

\* A call that returns Err hands nothing back: the action is the call that
\* returns Ok, and stores the components it hands back.

\* Join(game, player, optional starting_zone; faction)
JoinAction(Calls) ==
    \E c \in Calls :
        LET r == JoinRun(c)
        IN /\ r.ok
           /\ game' = r.game
           /\ players' = [players EXCEPT ![c.pr] = r.player]
           /\ zones' = IF c.zr = 0 THEN zones ELSE [zones EXCEPT ![c.zr] = r.zone[1]]
           /\ UNCHANGED units
           /\ last' = Succeeded("Join", "-", c.authority, c.pr, c.zr, 0, 0)

\* The expansions made since g0: every CreateNewZone raises total_zones by 1,
\* every spread a level by 5 and every conquest a level by 3.
ExpansionsMade(g, g0) ==
    (g.total_zones - g0.total_zones)
    + ((g.infection_level - g0.infection_level) + 4) \div 5
    + ((g.immune_response_level - g0.immune_response_level) + 4) \div 5

\* ExpandZone(game, player, source_zone, target_zone; expansion_type, new_zone_type)
ExpandAction(Calls, g0) ==
    \E c \in Calls :
        LET r == ExpandRun(c)
        IN /\ r.ok
           /\ ExpansionsMade(r.game, g0) <= MaxExpansions
           /\ game' = r.game
           /\ players' = [players EXCEPT ![c.pr] = r.player]
           /\ zones' = [zones EXCEPT ![c.st[2]] = r.target]
           /\ UNCHANGED units
           /\ last' = Succeeded("Expand", c.expansion_type, c.authority, c.pr,
                                c.st[1], c.st[2], 0)

\* Play(game, player, zone, optional unit; action, x, y, unit_type, ability_index)
\* FirstTurn and FirstUnits are the turn number and the unit count the caps on
\* turns and units start from.
PlayActionFrom(Calls, FirstTurn, FirstUnits) ==
    \E c \in Calls :
        LET r == PlayRun(c)
        IN /\ r.ok
           /\ c.action = "EndTurn" => game.turn_number < FirstTurn + MaxTurns
           /\ r.player.total_units <= FirstUnits + MaxUnits
           /\ game' = r.game
           /\ players' = [players EXCEPT ![c.pr] = r.player]
           /\ zones' = [zones EXCEPT ![c.zr] = r.zone]
           /\ units' = IF c.u = 0 THEN units ELSE [units EXCEPT ![c.u] = r.unit[1]]
           /\ last' = Succeeded("Play", c.action, c.authority, c.pr, c.zr, 0, c.u)

PlayAction(Calls, FirstTurn) == PlayActionFrom(Calls, FirstTurn, 0)

\* ------------------------------------------------------ the game from its start

SpecJoinCalls == JoinCalls({1}, {0, 1, 2})

SpecExpandCalls == ExpandCalls({<<1, 2>>, <<1, 3>>}, {1, 5})

SpecPlayCalls ==
    PlayCalls({1}, {}, {<<0, 0>>, <<16, 0>>}, {<<0, 0>>, <<16, 0>>}, {0, 3}, {0})

Init ==
    /\ game = GameDefault
    /\ players = [r \in PlayerRecs |-> PlayerDefault]
    /\ zones = ZonesInit
    /\ units = UnitsInit
    /\ last = LastInit

Next ==
    \/ JoinAction(SpecJoinCalls)
    \/ ExpandAction(SpecExpandCalls, GameDefault)
    \/ PlayAction(SpecPlayCalls, 0)

Spec == Init /\ [][Next]_vars

\* ------------------------------------------- the game right after both joins

\* A joins as ImmuneSystem with player record 1, then B joins as Pathogen with
\* player record 2 and zone 1 as the starting zone.
MidJoinA == JoinExec(GameDefault, PlayerDefault, None, "A", 0)

MidJoinB == JoinExec(MidJoinA.game, PlayerDefault, Some(ZonesInit[1]), "B", 1)

MidExpandCalls == ExpandCalls({<<1, 2>>, <<2, 1>>, <<1, 3>>}, {1, 5})

MidPlayCalls ==
    PlayCalls({1}, {1}, {<<0, 0>>, <<1, 0>>, <<16, 0>>},
              {<<0, 0>>, <<1, 0>>, <<9, 0>>, <<16, 0>>}, {0, 3, 12}, {0})

InitMid ==
    /\ game = MidJoinB.game
    /\ players = [r \in PlayerRecs |-> IF r = 1 THEN MidJoinA.player
                                       ELSE MidJoinB.player]
    /\ zones = [ZonesInit EXCEPT ![1] = MidJoinB.zone[1]]
    /\ units = UnitsInit
    /\ last = Succeeded("Join", "-", "B", 2, 1, 0, 0)

NextMid ==
    \/ ExpandAction(MidExpandCalls, GameDefault)
    \/ PlayAction(MidPlayCalls, 0)

SpecMid == InitMid /\ [][NextMid]_vars

\* ------------------------------------------------------- the game late on

\* Two states late in the game that started as in InitMid, each one spread away
\* from the win threshold. The records of the zones the leader took lie outside
\* the three records kept here.
\*
\* LateB: B made 10 InfectionSpreads onto unowned zones (2000 energy, 1000
\* nutrients, infection_level +50) and ended 140 turns on zone 1 (+5, +15, +1,
\* +10 each, the zone's counters capped); A ended 141 turns on a zone it does
\* not own. It is B's turn.
LateBGame ==
    [MidJoinB.game EXCEPT !.current_turn = 2, !.turn_number = 281,
                          !.infection_level = 70]

LateBPlayers ==
    [r \in PlayerRecs |->
        IF r = 1 THEN MidJoinA.player
        ELSE [MidJoinB.player EXCEPT !.energy_reserves = 200,
                                     !.antibody_reserves = 2300,
                                     !.stem_cell_reserves = 190,
                                     !.nutrient_reserves = 1600,
                                     !.controlled_zones = 11]]

LateBZones ==
    [ZonesInit EXCEPT ![1] = [MidJoinB.zone[1] EXCEPT !.energy = 800,
                                                      !.antibodies = 1000,
                                                      !.stem_cells = 100,
                                                      !.nutrients = 1000]]

\* LateA: A created zone 3 as Tissue (150, 75, 15, 50; total_zones 17), made 10
\* ImmuneResponses onto unowned Tissue zones (1600, 3200, 400, 800;
\* immune_response_level +50) and ended 150 turns on a Lymphatic zone it took
\* (+8, +20, +5, +5 each); B ended 150 turns on a zone it does not own. It is
\* A's turn.
LateAGame ==
    [MidJoinB.game EXCEPT !.current_turn = 1, !.turn_number = 300,
                          !.total_zones = 17, !.immune_response_level = 80]

LateAPlayers ==
    [r \in PlayerRecs |->
        IF r = 1 THEN [MidJoinA.player EXCEPT !.energy_reserves = 650,
                                              !.antibody_reserves = 525,
                                              !.stem_cell_reserves = 485,
                                              !.nutrient_reserves = 800,
                                              !.controlled_zones = 11]
        ELSE MidJoinB.player]

LateAZones ==
    [ZonesInit EXCEPT
        ![1] = MidJoinB.zone[1],
        ![3] = create_new_zone(MidJoinB.game, MidJoinA.player, ZonesInit[3], 1).target]

\* The caps of the expansions start from the larger of the two states' values.
LateBase ==
    [total_zones |-> 17, infection_level |-> 70, immune_response_level |-> 80]

LateFirstTurn == LateAGame.turn_number

LateExpandCalls == ExpandCalls({<<1, 2>>, <<3, 2>>}, {1, 5})

LatePlayCalls ==
    PlayCalls({1}, {}, {<<0, 0>>, <<16, 0>>}, {<<0, 0>>, <<16, 0>>}, {0, 6}, {0})

InitLate ==
    /\ \/ game = LateBGame /\ players = LateBPlayers /\ zones = LateBZones
       \/ game = LateAGame /\ players = LateAPlayers /\ zones = LateAZones
    /\ units = UnitsInit
    /\ last = LastInit

NextLate ==
    \/ ExpandAction(LateExpandCalls, LateBase)
    \/ PlayAction(LatePlayCalls, LateFirstTurn)

SpecLate == InitLate /\ [][NextLate]_vars

\* ------------------------------------ the game on maps of several layouts

\* The state right after both joins, as in InitMid, on a map whose first two
\* zones the host has laid on any of these slots (the same slot included).
GeoSlots == {<<0, 0>>, <<1, 0>>, <<1, 1>>, <<0, 2>>}

GeoExpandCalls == ExpandCalls({<<1, 2>>, <<2, 1>>, <<2, 3>>}, {1})

GeoPlayCalls == PlayCalls({1}, {}, {}, {<<0, 0>>}, {0}, {0})

InitGeo ==
    /\ game = MidJoinB.game
    /\ players = [r \in PlayerRecs |-> IF r = 1 THEN MidJoinA.player
                                       ELSE MidJoinB.player]
    /\ \E s1 \in GeoSlots, s2 \in GeoSlots :
          zones = [ZonesInit EXCEPT
                     ![1] = [MidJoinB.zone[1] EXCEPT !.x = s1[1], !.y = s1[2]],
                     ![2] = [ZonesInit[2] EXCEPT !.x = s2[1], !.y = s2[2]]]
    /\ units = UnitsInit
    /\ last = Succeeded("Join", "-", "B", 2, 1, 0, 0)

NextGeo ==
    \/ ExpandAction(GeoExpandCalls, GameDefault)
    \/ PlayAction(GeoPlayCalls, 0)

SpecGeo == InitGeo /\ [][NextGeo]_vars

\* ------------------------------------------------ the game on a full map

\* The state right after both joins, as in InitMid, of a game whose total_zones
\* stands one below the limit or at it.
CapBase == [GameDefault EXCEPT !.total_zones = MaxZones - 1]

CapExpandCalls == ExpandCalls({<<1, 2>>, <<1, 3>>}, {1, 5})

CapPlayCalls == PlayCalls({1}, {}, {}, {<<0, 0>>}, {0}, {0})

InitCap ==
    /\ \E n \in {MaxZones - 1, MaxZones} :
          game = [MidJoinB.game EXCEPT !.total_zones = n]
    /\ players = [r \in PlayerRecs |-> IF r = 1 THEN MidJoinA.player
                                       ELSE MidJoinB.player]
    /\ zones = [ZonesInit EXCEPT ![1] = MidJoinB.zone[1]]
    /\ units = UnitsInit
    /\ last = Succeeded("Join", "-", "B", 2, 1, 0, 0)

NextCap ==
    \/ ExpandAction(CapExpandCalls, CapBase)
    \/ PlayAction(CapPlayCalls, 0)

SpecCap == InitCap /\ [][NextCap]_vars

\* ------------------------------------------------- the fight in one zone

\* A joins as ImmuneSystem, B joins as Pathogen with a starting zone whose grid
\* is empty, A ends its turn and B spawns a Virus at (0,0) of its zone. The
\* host keeps a Unit record for the Virus (unit 2: id 0, at (0,0)) next to a
\* record fresh from its default (unit 1).
TacJoinB ==
    JoinExec(MidJoinA.game, PlayerDefault,
             Some([ZonesInit[1] EXCEPT !.grid = ZoneDefault.grid]), "B", 1)

TacEndTurn ==
    PlayExec(TacJoinB.game, MidJoinA.player, TacJoinB.zone[1], None, "A",
             "EndTurn", 0, 0, 0, 0)

TacSpawn ==
    PlayExec(TacEndTurn.game, TacJoinB.player, TacEndTurn.zone, None, "B",
             "SpawnUnit", 0, 0, 6, 0)

TacUnits ==
    [r \in UnitRecs |->
        CASE r = 1 -> UnitDefault
          [] r = 2 -> UnitOf("Virus", 0, TacSpawn.zone.zone_id, 0, 0, "B")]

\* The fresh record only attacks; the Virus moves and uses its ability.
TacPlayCalls ==
    {c \in PlayCalls({1}, {1, 2}, {<<1, 0>>}, {<<0, 0>>, <<1, 0>>}, {6}, {0}) :
        /\ c.u = 1 => c.action = "AttackPosition"
        /\ c.u = 2 => c.action # "AttackPosition"}

InitTac ==
    /\ game = TacSpawn.game
    /\ players = [r \in PlayerRecs |-> IF r = 1 THEN TacEndTurn.player
                                       ELSE TacSpawn.player]
    /\ zones = [ZonesInit EXCEPT ![1] = TacSpawn.zone]
    /\ units = TacUnits
    /\ last = Succeeded("Play", "SpawnUnit", "B", 2, 1, 0, 0)

NextTac == PlayAction(TacPlayCalls, TacSpawn.game.turn_number)

SpecTac == InitTac /\ [][NextTac]_vars

\* --------------------------------------- spawning in zones of every type

\* The state right after both joins, as in InitMid. Zone 2 is created, of any
\* type, by whoever gets to it first, and units of any type are spawned in it.
CostExpandCalls ==
    {c \in ExpandCalls({<<1, 2>>}, 0..4) : c.expansion_type = "CreateNewZone"}

CostPlayCalls ==
    PlayCalls({2}, {}, {<<0, 0>>}, {<<0, 0>>}, 0..(UnitTypeCount - 1), {0})

NextCost ==
    \/ ExpandAction(CostExpandCalls, GameDefault)
    \/ PlayAction(CostPlayCalls, 0)

SpecCost == InitMid /\ [][NextCost]_vars

\* ------------------------------------------- the game after a zone is lost

\* A state late in the game, B leading as in LateB with 11 zones to its count:
\* zone 1, zone 3 (one of the zones it spread onto, left as Tissue) and 9 zones
\* whose records lie outside the three kept here. Since LateB each player has
\* ended 110 more turns and B one more (B on zone 1: +5, +15, +1, +10 each);
\* A has then created zone 2 as Tissue. It is A's turn.
RetakeCreate == create_new_zone(LateBGame, MidJoinA.player, ZonesInit[2], 1)

RetakeGame ==
    [RetakeCreate.game EXCEPT !.current_turn = 1,
                              !.turn_number = LateBGame.turn_number + 221]

RetakePlayers ==
    [r \in PlayerRecs |->
        IF r = 1 THEN RetakeCreate.player
        ELSE add_resources(LateBPlayers[2], <<111 * 5, 111 * 15, 111, 111 * 10>>)]

RetakeZones ==
    [r \in ZoneRecs |->
        CASE r = 1 -> LateBZones[1]
          [] r = 2 -> RetakeCreate.target
          [] r = 3 -> [ZonesInit[3] EXCEPT !.owner = "B", !.is_controlled = TRUE,
                                           !.zone_type = "Tissue"]]

\* The zones B owns outside the records kept; A owns none there.
RetakeElsewhere == LateBPlayers[2].controlled_zones - 2

RetakeExpandCalls == ExpandCalls({<<2, 1>>, <<3, 2>>}, {1})

RetakePlayCalls == PlayCalls({1}, {}, {}, {<<0, 0>>}, {0}, {0})

InitRetake ==
    /\ game = RetakeGame
    /\ players = RetakePlayers
    /\ zones = RetakeZones
    /\ units = UnitsInit
    /\ last = LastInit

NextRetake ==
    \/ ExpandAction(RetakeExpandCalls, RetakeGame)
    \/ PlayAction(RetakePlayCalls, RetakeGame.turn_number)

SpecRetake == InitRetake /\ [][NextRetake]_vars

\* ------------------------------------------- the game from start to finish

\* The game from its start together with the game late on: the steps of Spec
\* while few turns have been played, the steps of SpecLate after that.
LifeLate == game.turn_number >= LateBGame.turn_number

InitLife == Init \/ InitLate

NextLife ==
    \/ ~LifeLate /\ Next
    \/ LifeLate /\ NextLate

SpecLife == InitLife /\ [][NextLife]_vars

\* ------------------------------------------ the game with both levels high

\* A state long into a game that started as in InitMid. Each player ended
\* HighRounds turns, B on zone 1, drawing the zone's yield and filling the
\* zone's counters to their caps; A on zone 1 too, which it does not own, until
\* it created zone 2 as Tissue, and from then on HighOwnRounds turns on zone 2.
\* On its next turn A made HighResponses ImmuneResponses from zone 2 onto
\* zone 1 and ended the turn on zone 2; B then made HighSpreads
\* InfectionSpreads from zone 1 onto zone 2. It is still B's turn, and zone 3
\* is still unowned.
HighRounds == 600

HighOwnRounds == 500

HighResponses == 13

HighSpreads == 15

Times(n, c) == <<n * c[1], n * c[2], n * c[3], n * c[4]>>

HighCreate == create_new_zone(MidJoinB.game, MidJoinA.player, ZonesInit[2], 1)

HighGame ==
    [HighCreate.game EXCEPT
        !.current_turn = 2,
        !.turn_number = 2 * HighRounds + 1,
        !.immune_response_level = ClampLevel(@ + HighResponses * 5),
        !.infection_level = ClampLevel(@ + HighSpreads * 5)]

HighPlayers ==
    [r \in PlayerRecs |->
        IF r = 1
        THEN add_resources(
                 spend_resources(
                     add_resources(HighCreate.player,
                         Times(HighOwnRounds, get_resource_generation("Tissue"))),
                     Times(HighResponses,
                           calculate_immune_response_cost(HighCreate.target,
                                                          MidJoinB.zone[1]))),
                 get_resource_generation("Tissue"))
        ELSE spend_resources(
                 add_resources(MidJoinB.player,
                     Times(HighRounds, get_resource_generation("Tissue"))),
                 Times(HighSpreads,
                       calculate_infection_spread_cost(MidJoinB.zone[1],
                                                       HighCreate.target)))]

HighZones ==
    [r \in ZoneRecs |->
        CASE r = 1 -> [MidJoinB.zone[1] EXCEPT !.energy = ZoneResourceCap,
                                               !.antibodies = ZoneResourceCap,
                                               !.stem_cells = ZoneStemCap,
                                               !.nutrients = ZoneResourceCap]
          [] r = 2 -> [HighCreate.target EXCEPT
                          !.energy = SatSub(ZoneResourceCap, HighSpreads * 50),
                          !.antibodies = ZoneResourceCap,
                          !.stem_cells = ZoneStemCap,
                          !.nutrients = SatSub(ZoneResourceCap, HighSpreads * 30)]
          [] r = 3 -> ZonesInit[3]]

HighExpandCalls == ExpandCalls({<<1, 2>>, <<2, 1>>, <<2, 3>>}, {1})

HighPlayCalls == PlayCalls({1}, {}, {<<0, 0>>}, {<<0, 0>>}, {6}, {0})

InitHigh ==
    /\ game = HighGame
    /\ players = HighPlayers
    /\ zones = HighZones
    /\ units = UnitsInit
    /\ last = LastInit

NextHigh ==
    \/ ExpandAction(HighExpandCalls, HighGame)
    \/ PlayAction(HighPlayCalls, HighGame.turn_number)

SpecHigh == InitHigh /\ [][NextHigh]_vars

\* ------------------------------------------------ spawns and kills in a zone

\* The state of SpecTac - B has spawned one Virus into the empty grid of its
\* zone - with Play calls that spawn at two cells and attack them with unit 1.
IdsPlayCalls ==
    {c \in PlayCalls({1}, {1}, {<<0, 0>>, <<1, 0>>}, {<<0, 0>>, <<1, 0>>}, {6}, {0}) :
        /\ c.action \in {"SpawnUnit", "AttackPosition"}
        /\ c.action = "AttackPosition" => c.u = 1}

NextIds ==
    PlayActionFrom(IdsPlayCalls, TacSpawn.game.turn_number,
                   TacSpawn.player.total_units)

SpecIds == InitTac /\ [][NextIds]_vars

\* ------------------------------------------------------------ properties

\* C1 (checked under Spec). A Play or ExpandZone call returns Ok only when the
\* game is Active, the signer is the seat current_turn names (player1 for 1,
\* player2 for 2) and the Player record handed in carries the signer's key;
\* every other call is rejected.
C1_OnlySeatOnTurnActs ==
    /\ \A c \in SpecExpandCalls :
          ExpandRun(c).ok =>
             /\ game.game_state = Active
             /\ \/ game.current_turn = 1 /\ game.player1 = c.authority
                \/ game.current_turn = 2 /\ game.player2 = c.authority
             /\ players[c.pr].player_key = c.authority
    /\ \A c \in SpecPlayCalls :
          PlayRun(c).ok =>
             /\ game.game_state = Active
             /\ \/ game.current_turn = 1 /\ game.player1 = c.authority
                \/ game.current_turn = 2 /\ game.player2 = c.authority
             /\ players[c.pr].player_key = c.authority

\* An expansion has gone through, and in the state it left a call by the seat
\* off turn and a call with the other player's record are both rejected.
C1_Witness ==
    /\ last.op = "Expand"
    /\ \E c \in SpecPlayCalls : PlayRun(c).err = "NotPlayersTurn"
    /\ \E c \in SpecExpandCalls : ExpandRun(c).err = "NotInGame"

\* C2 (checked under SpecMid). An ExpandZone call that returns Err, of any of
\* the four variants and for any reason, has left its working copies of game,
\* player, source zone and target zone equal to the stored ones.
C2_FailedExpansionChangesNothing ==
    \A c \in MidExpandCalls :
        LET r == ExpandRun(c)
        IN ~r.ok => /\ r.game = game
                    /\ r.player = players[c.pr]
                    /\ r.source = zones[c.st[1]]
                    /\ r.target = zones[c.st[2]]

\* A state in which calls fail for want of resources, for the wrong faction,
\* for a source not owned or a foreign record, for a target not adjacent, for a
\* target already owned, for an invalid zone type and for the wrong turn.
C2_Witness ==
    \A e \in {"InsufficientResources", "ExpansionNotPossible", "NotInGame",
              "ZoneNotAdjacent", "ZoneAlreadyControlled", "InvalidZoneType",
              "NotPlayersTurn"} :
        \E c \in MidExpandCalls : ~ExpandRun(c).ok /\ ExpandRun(c).err = e

\* C3 (checked under SpecMid). A Play call that returns Err has left its
\* working copies of game, player, zone and unit equal to the stored ones.
C3_FailedPlayChangesNothing ==
    \A c \in MidPlayCalls :
        LET r == PlayRun(c)
        IN ~r.ok => /\ r.game = game
                    /\ r.player = players[c.pr]
                    /\ r.zone = zones[c.zr]
                    /\ r.unit = UnitOfCall(c)

\* A state a Play call has left, in which calls fail for the wrong turn, a
\* foreign record, a position out of bounds, an occupied position, a move out
\* of range, an attack on an Obstacle and a locked unit type.
C3_Witness ==
    /\ last.op = "Play"
    /\ \A e \in {"NotPlayersTurn", "NotInGame", "PositionOutOfBounds",
                 "PositionOccupied", "InvalidMove", "InvalidAction",
                 "UnitTypeNotUnlocked"} :
          \E c \in MidPlayCalls : ~PlayRun(c).ok /\ PlayRun(c).err = e

\* C4 (checked under Spec). A Join call that returns Err has left game.player1,
\* game.player2, game_state and the Player record as they were stored.
C4_FailedJoinChangesNothing ==
    \A c \in SpecJoinCalls :
        LET r == JoinRun(c)
        IN ~r.ok => /\ r.game.player1 = game.player1
                    /\ r.game.player2 = game.player2
                    /\ r.game.game_state = game.game_state
                    /\ r.player = players[c.pr]

\* C5 (checked under SpecLate). A Play call that returns Ok leaves the game
\* Finished exactly when the acting player's controlled_zones is at least
\* floor(total_zones * 3 / 4); the winner is then the acting player's seat.
C5_PlayWinCheck ==
    [][last'.op = "Play" =>
          LET P == players'[last'.p]
          IN /\ game'.game_state.tag = "Finished"
                  <=> P.controlled_zones >= (game'.total_zones * 3) \div 4
             /\ (game'.game_state.tag = "Finished" /\ last'.auth = game'.player1)
                  => /\ game'.game_state = Finished("Player1")
                     /\ game'.winner = game'.player1
             /\ (game'.game_state.tag = "Finished" /\ last'.auth = game'.player2)
                  => /\ game'.game_state = Finished("Player2")
                     /\ game'.winner = game'.player2
             /\ (game'.total_zones = 16 /\ P.controlled_zones = 12)
                  => game'.game_state.tag = "Finished"
             /\ (game'.total_zones = 16 /\ P.controlled_zones = 11)
                  => game'.game_state = Active]_vars

\* Seat 2 has won by a Play action with 12 of 16 zones.
C5_Witness ==
    /\ last.op = "Play"
    /\ game.total_zones = 16
    /\ players[last.p].controlled_zones = 12
    /\ game.game_state = Finished("Player2")
    /\ game.winner = game.player2

\* C6 (checked under SpecLate). Right after a Play or ExpandZone call that
\* returned Ok and left the acting player with controlled_zones at or above
\* total_zones * 3 / 4, the game is Finished with that player as winner.
C6_WinCheckAfterEveryAction ==
    (/\ last.op \in {"Play", "Expand"}
     /\ players[last.p].controlled_zones >= (game.total_zones * 3) \div 4)
    => /\ game.game_state.tag = "Finished"
       /\ game.winner = last.auth

\* C7 (checked under SpecLate). Once the game is Finished every Join,
\* ExpandZone and Play call is rejected and no step changes the Game record.
C7_FinishedIsTerminal ==
    /\ [](game.game_state.tag = "Finished" =>
             /\ \A c \in SpecJoinCalls : ~JoinRun(c).ok
             /\ \A c \in LateExpandCalls : ~ExpandRun(c).ok
             /\ \A c \in LatePlayCalls : ~PlayRun(c).ok)
    /\ [][game.game_state.tag = "Finished" => game' = game]_vars

\* The game is Finished with seat 1 as the winner.
C7_Witness ==
    /\ game.game_state = Finished("Player1")
    /\ game.winner = game.player1

\* C8 (checked under SpecMid). An EndTurn that returns Ok on a zone the acting
\* player does not own leaves the zone's four resource counters and the
\* player's four reserves as they were, flips current_turn to the other seat
\* and adds 1 to turn_number.
C8_EndTurnOnForeignZone ==
    [][(/\ last'.op = "Play"
        /\ last'.variant = "EndTurn"
        /\ zones[last'.z].owner # last'.auth)
       => /\ zones'[last'.z].energy = zones[last'.z].energy
          /\ zones'[last'.z].antibodies = zones[last'.z].antibodies
          /\ zones'[last'.z].stem_cells = zones[last'.z].stem_cells
          /\ zones'[last'.z].nutrients = zones[last'.z].nutrients
          /\ players'[last'.p].energy_reserves = players[last'.p].energy_reserves
          /\ players'[last'.p].antibody_reserves = players[last'.p].antibody_reserves
          /\ players'[last'.p].stem_cell_reserves = players[last'.p].stem_cell_reserves
          /\ players'[last'.p].nutrient_reserves = players[last'.p].nutrient_reserves
          /\ game.current_turn \in {1, 2}
          /\ game'.current_turn = 3 - game.current_turn
          /\ game'.turn_number = game.turn_number + 1]_vars

\* The seat that does not own zone 1 has just ended its turn on it.
C8_Witness ==
    /\ last.op = "Play"
    /\ last.variant = "EndTurn"
    /\ zones[last.z].owner # last.auth
    /\ game.turn_number >= 1

\* C9 (checked under SpecMid). While the game is Active current_turn is 1 or
\* 2; an EndTurn that returns Ok flips current_turn and adds 1 to turn_number;
\* every other tactical action and every expansion leaves both as they were.
C9_OnlyEndTurnAdvancesTurn ==
    /\ [](game.game_state = Active => game.current_turn \in {1, 2})
    /\ [][game.game_state = Active =>
            /\ game'.turn_number >= game.turn_number
            /\ IF last'.op = "Play" /\ last'.variant = "EndTurn"
               THEN /\ game'.current_turn = 3 - game.current_turn
                    /\ game'.turn_number = game.turn_number + 1
               ELSE /\ game'.current_turn = game.current_turn
                    /\ game'.turn_number = game.turn_number]_vars

\* Two turns have been ended and the unit has then been moved.
C9_Witness ==
    /\ game.game_state = Active
    /\ game.turn_number = 2
    /\ last.op = "Play"
    /\ last.variant = "MoveUnit"
    /\ last.u # 0

\* C10 (checked under Spec). When the player in seat 1 has joined as
\* ImmuneSystem and a second player has just joined as Pathogen with a starting
\* zone handed in, the game is Active with current_turn 1 and the player in
\* seat 1 owns a zone of type Lymphatic and has controlled_zones 1.
C10_FirstPlayerGetsStartingZone ==
    (/\ last.op = "Join"
     /\ last.z # 0
     /\ game.game_state = Active
     /\ players[last.p].player_key = game.player2
     /\ players[last.p].faction = "Pathogen"
     /\ \E pr \in PlayerRecs : /\ players[pr].player_key = game.player1
                               /\ players[pr].faction = "ImmuneSystem")
    => /\ game.current_turn = 1
       /\ \E pr \in PlayerRecs, zr \in ZoneRecs :
             /\ players[pr].player_key = game.player1
             /\ players[pr].controlled_zones = 1
             /\ zones[zr].owner = game.player1
             /\ zones[zr].zone_type = "Lymphatic"

\* C11 (checked under Spec). The first Join that returns Ok fills seat 1 and
\* leaves the game waiting; the second, by another identity, fills seat 2 and
\* makes the game Active with current_turn 1. A Join returns Ok only while the
\* game waits, seat 2 is free and the signer holds no seat, so no seated
\* identity joins again and no third Join goes through. In every Active state
\* both seats are set and differ.
C11_JoinSeatsInOrder ==
    /\ [](game.game_state = Active =>
             /\ game.player1 # NoKey
             /\ game.player2 # NoKey
             /\ game.player1 # game.player2)
    /\ [](\A auth \in Identities \cup {"C"}, pr \in PlayerRecs, f \in {0, 1} :
             JoinExec(game, players[pr], Some(zones[1]), auth, f).ok =>
                /\ game.game_state = WaitingForPlayers
                /\ game.player2 = NoKey
                /\ auth \notin {game.player1, game.player2})
    /\ [][last'.op = "Join" =>
            IF game.player1 = NoKey
            THEN /\ game'.player1 = last'.auth
                 /\ game'.player2 = NoKey
                 /\ game'.game_state = WaitingForPlayers
            ELSE /\ game'.player1 = game.player1
                 /\ game'.player2 = last'.auth
                 /\ last'.auth # game.player1
                 /\ game'.game_state = Active
                 /\ game'.current_turn = 1]_vars

\* B joined first and A second: the game has just become Active.
C11_Witness ==
    /\ last.op = "Join"
    /\ game.game_state = Active
    /\ game.player1 = "B"
    /\ game.player2 = "A"

\* C12 (checked under SpecGeo). is_adjacent_zone is symmetric and holds exactly
\* when the Manhattan distance of the two zones' (x, y) is 1, so never for a
\* zone and itself; and an InfectionSpread, ImmuneResponse or ConquerZone call
\* returns Ok only when the signer owns the source zone and source and target
\* are at Manhattan distance 1.
C12_AdjacencyIsManhattanOne ==
    /\ \A a \in ZoneRecs, b \in ZoneRecs :
          LET dx == IF zones[a].x >= zones[b].x THEN zones[a].x - zones[b].x
                    ELSE zones[b].x - zones[a].x
              dy == IF zones[a].y >= zones[b].y THEN zones[a].y - zones[b].y
                    ELSE zones[b].y - zones[a].y
          IN /\ is_adjacent_zone(zones[a], zones[b])
                  = is_adjacent_zone(zones[b], zones[a])
             /\ is_adjacent_zone(zones[a], zones[b]) <=> (dx + dy = 1)
    /\ \A c \in GeoExpandCalls :
          LET sz == zones[c.st[1]]
              tz == zones[c.st[2]]
              dx == IF sz.x >= tz.x THEN sz.x - tz.x ELSE tz.x - sz.x
              dy == IF sz.y >= tz.y THEN sz.y - tz.y ELSE tz.y - sz.y
          IN (/\ c.expansion_type \in {"InfectionSpread", "ImmuneResponse",
                                       "ConquerZone"}
              /\ ExpandRun(c).ok)
             => /\ sz.owner = c.authority
                /\ dx + dy = 1

\* A has conquered the zone at (0,0) from its own zone at (1,0), on a map whose
\* third zone is adjacent to neither.
C12_Witness ==
    /\ last.op = "Expand"
    /\ last.variant = "ConquerZone"
    /\ zones[last.z].x = 1 /\ zones[last.z].y = 0
    /\ zones[last.t].x = 0 /\ zones[last.t].y = 0
    /\ zones[last.t].owner = "A"
    /\ \E c \in GeoExpandCalls : ExpandRun(c).err = "ZoneNotAdjacent"

\* C13 (checked under SpecCap). With total_zones = 64 CreateNewZone returns
\* MaxZonesReached for every player record, full or empty of reserves, every
\* zone-type selector and every target, owned or not; total_zones never passes
\* 64 and no step lowers it.
C13_TotalZonesCapped ==
    /\ [](game.total_zones = 64 =>
             /\ \A pr \in PlayerRecs, zr \in ZoneRecs, sel \in 0..5,
                   broke \in BOOLEAN :
                   LET p == IF broke
                            THEN [players[pr] EXCEPT !.energy_reserves = 0,
                                                     !.antibody_reserves = 0,
                                                     !.stem_cell_reserves = 0,
                                                     !.nutrient_reserves = 0]
                            ELSE players[pr]
                       r == create_new_zone(game, p, zones[zr], sel)
                   IN ~r.ok /\ r.err = "MaxZonesReached"
             /\ \A c \in CapExpandCalls :
                   c.expansion_type = "CreateNewZone" => ~ExpandRun(c).ok)
    /\ [](game.total_zones <= 64)
    /\ [][game'.total_zones >= game.total_zones]_vars

\* The 64th zone has just been created, and the creator, on turn and able to
\* pay, is refused another.
C13_Witness ==
    /\ game.total_zones = 64
    /\ last.op = "Expand"
    /\ last.variant = "CreateNewZone"
    /\ \E c \in CapExpandCalls :
          /\ c.authority = last.auth
          /\ c.pr = last.p
          /\ zones[c.st[2]].owner = NoKey
          /\ c.new_zone_type = 1
          /\ ExpandRun(c).err = "MaxZonesReached"

C15_SpawnCost ==
    /\ calculate_spawn_cost("TCell", "Lymphatic") = <<16, 8, 1, 5>>
    /\ \A i \in 1..12,
          zt \in {"Circulatory", "Tissue", "Lymphatic", "Barrier", "Organ"} :
          LET base == get_base_stats(UnitTypes[i])[5]
              c == CASE zt = "Lymphatic" -> (base * 8) \div 10
                     [] zt = "Barrier" -> (base * 15) \div 10
                     [] OTHER -> base
          IN calculate_spawn_cost(UnitTypes[i], zt) =
                IF i <= 6 THEN <<c, c \div 2, c \div 10, c \div 3>>
                ELSE <<2 * c, 0, 0, c>>
    /\ \A call \in CostPlayCalls :
          (call.action = "SpawnUnit" /\ PlayRun(call).ok) =>
             LET zt == zones[call.zr].zone_type
                 base == get_base_stats(UnitTypes[call.unit_type + 1])[5]
                 c == CASE zt = "Lymphatic" -> (base * 8) \div 10
                        [] zt = "Barrier" -> (base * 15) \div 10
                        [] OTHER -> base
                 cost == IF call.unit_type < 6
                         THEN <<c, c \div 2, c \div 10, c \div 3>>
                         ELSE <<2 * c, 0, 0, c>>
                 p == players[call.pr]
                 q == PlayRun(call).player
             IN /\ q.energy_reserves = p.energy_reserves - cost[1]
                /\ q.antibody_reserves = p.antibody_reserves - cost[2]
                /\ q.stem_cell_reserves = p.stem_cell_reserves - cost[3]
                /\ q.nutrient_reserves = p.nutrient_reserves - cost[4]

\* A has created zone 2 as Lymphatic for (300, 150, 30, 100) and spawned a
\* TCell in it for (16, 8, 1, 5).
C15_Witness ==
    /\ last.op = "Play"
    /\ last.variant = "SpawnUnit"
    /\ zones[last.z].zone_type = "Lymphatic"
    /\ zones[last.z].grid[<<0, 0>>] = ImmuneCell(zones[last.z].zone_id * 1000, 80)
    /\ players[last.p].energy_reserves = 884
    /\ players[last.p].antibody_reserves = 642
    /\ players[last.p].stem_cell_reserves = 119
    /\ players[last.p].nutrient_reserves = 795

\* C16 (checked under SpecTac). For a unit whose record's (x, y) is the cell
\* that holds it, a MoveUnit that returns Ok followed by a MoveUnit back to
\* the first cell that returns Ok leaves the record at its first (x, y), the
\* same cells of the grid occupied and unit_count as it was.
C16_MoveRoundTrip ==
    \A c \in TacPlayCalls :
        (/\ c.action = "MoveUnit"
         /\ c.u # 0
         /\ <<units[c.u].x, units[c.u].y>> \in DOMAIN zones[c.zr].grid
         /\ zones[c.zr].grid[<<units[c.u].x, units[c.u].y>>].tag
               \in {"ImmuneCell", "Pathogen"}
         /\ zones[c.zr].grid[<<units[c.u].x, units[c.u].y>>].unit_id
               = units[c.u].unit_id
         /\ PlayRun(c).ok)
        => LET u == units[c.u]
               there == PlayRun(c)
               back == PlayExec(there.game, there.player, there.zone, there.unit,
                                c.authority, "MoveUnit", u.x, u.y, 0, 0)
           IN /\ there.unit[1].x = c.pos[1] /\ there.unit[1].y = c.pos[2]
              /\ back.ok =>
                   /\ back.unit[1].x = u.x
                   /\ back.unit[1].y = u.y
                   /\ DOMAIN back.zone.grid = DOMAIN zones[c.zr].grid
                   /\ back.zone.unit_count = zones[c.zr].unit_count
                   /\ Cardinality(DOMAIN zones[c.zr].grid) = 1
                         => Cardinality(DOMAIN back.zone.grid) = 1

\* The Virus, alone in its zone, has moved to (1,0) and back to (0,0).
C16_Witness ==
    /\ last.op = "Play"
    /\ last.variant = "MoveUnit"
    /\ last.u = 2
    /\ units[2].x = 0 /\ units[2].y = 0
    /\ DOMAIN zones[1].grid = {<<0, 0>>}
    /\ zones[1].grid[<<0, 0>>].unit_id = units[2].unit_id
    /\ zones[1].unit_count = 1

\* C17 (checked under SpecLate). No reserve of a player is ever below 0: a
\* SpawnUnit or an expansion of any of the four kinds returns Ok only when
\* each reserve is at least its part of the computed cost, and lowers each
\* reserve by exactly that part.
C17_ReservesNeverNegative ==
    /\ \A pr \in PlayerRecs :
          /\ players[pr].energy_reserves >= 0
          /\ players[pr].antibody_reserves >= 0
          /\ players[pr].stem_cell_reserves >= 0
          /\ players[pr].nutrient_reserves >= 0
    /\ \A c \in LateExpandCalls :
          ExpandRun(c).ok =>
             LET p == players[c.pr]
                 q == ExpandRun(c).player
                 sz == zones[c.st[1]]
                 tz == zones[c.st[2]]
                 cost == CASE c.expansion_type = "InfectionSpread" ->
                                calculate_infection_spread_cost(sz, tz)
                           [] c.expansion_type = "ImmuneResponse" ->
                                calculate_immune_response_cost(sz, tz)
                           [] c.expansion_type = "CreateNewZone" ->
                                calculate_zone_creation_cost(
                                    ZoneTypeOfIndex(c.new_zone_type), p.faction)
                           [] c.expansion_type = "ConquerZone" ->
                                calculate_conquest_cost(sz, tz)
             IN /\ p.energy_reserves >= cost[1]
                /\ p.antibody_reserves >= cost[2]
                /\ p.stem_cell_reserves >= cost[3]
                /\ p.nutrient_reserves >= cost[4]
                /\ q.energy_reserves = p.energy_reserves - cost[1]
                /\ q.antibody_reserves = p.antibody_reserves - cost[2]
                /\ q.stem_cell_reserves = p.stem_cell_reserves - cost[3]
                /\ q.nutrient_reserves = p.nutrient_reserves - cost[4]
    /\ \A c \in LatePlayCalls :
          (c.action = "SpawnUnit" /\ PlayRun(c).ok) =>
             LET p == players[c.pr]
                 q == PlayRun(c).player
                 cost == calculate_spawn_cost(UnitTypes[c.unit_type + 1],
                                              zones[c.zr].zone_type)
             IN /\ p.energy_reserves >= cost[1]
                /\ p.antibody_reserves >= cost[2]
                /\ p.stem_cell_reserves >= cost[3]
                /\ p.nutrient_reserves >= cost[4]
                /\ q.energy_reserves = p.energy_reserves - cost[1]
                /\ q.antibody_reserves = p.antibody_reserves - cost[2]
                /\ q.stem_cell_reserves = p.stem_cell_reserves - cost[3]
                /\ q.nutrient_reserves = p.nutrient_reserves - cost[4]

\* An expansion has taken the player's energy to 0, and in the state it left
\* a spawn and an expansion by that player fail for want of resources.
C17_Witness ==
    /\ last.op = "Expand"
    /\ players[last.p].energy_reserves = 0
    /\ \E c \in LatePlayCalls :
          /\ c.action = "SpawnUnit"
          /\ c.authority = last.auth
          /\ PlayRun(c).err = "InsufficientResources"
    /\ \E c \in LateExpandCalls :
          /\ c.authority = last.auth
          /\ ExpandRun(c).err = "InsufficientResources"

\* C18 (checked under SpecTac). In every state reached from a zone with an
\* empty grid and unit_count 0, each zone's unit_count is the number of its
\* grid cells that hold an ImmuneCell or a Pathogen.
C18_UnitCountMatchesGrid ==
    \A zr \in ZoneRecs :
        zones[zr].unit_count =
            Cardinality({q \in DOMAIN zones[zr].grid :
                            zones[zr].grid[q].tag \in {"ImmuneCell", "Pathogen"}})

\* C19 (checked under SpecTac). The Unit record of the placed Virus has
\* 0 <= health <= max_health, and its (x, y) is a cell of its zone's grid that
\* holds a combatant with the record's unit id - whatever Play actions have
\* attacked, killed or moved the unit.
C19_UnitRecordMatchesGrid ==
    /\ units[2].health >= 0
    /\ units[2].health <= units[2].max_health
    /\ \A zr \in ZoneRecs :
          zones[zr].zone_id = units[2].zone_id =>
             /\ <<units[2].x, units[2].y>> \in DOMAIN zones[zr].grid
             /\ zones[zr].grid[<<units[2].x, units[2].y>>].tag
                   \in {"ImmuneCell", "Pathogen"}
             /\ zones[zr].grid[<<units[2].x, units[2].y>>].unit_id
                   = units[2].unit_id

\* C20 (checked under SpecRetake). Whenever the game is Finished with Player1
\* or Player2 as winner, the zones whose owner is the winner number at least
\* floor(total_zones * 3 / 4).
C20_WinnerOwnsThreeQuarters ==
    (/\ game.game_state.tag = "Finished"
     /\ game.game_state.winner \in {"Player1", "Player2"})
    => Cardinality({zr \in ZoneRecs : zones[zr].owner = game.winner})
         + (IF game.winner = "B" THEN RetakeElsewhere ELSE 0)
       >= (game.total_zones * 3) \div 4

\* C21 (checked under Spec). The EndTurn that takes turn_number from n to n + 1
\* is signed by the player in seat 1 when n is even and by the player in seat 2
\* when n is odd, so the EndTurns that return Ok alternate between the seats
\* starting with seat 1; and every Play or ExpandZone call that returns Ok
\* between two EndTurns is signed by the player that ends the turn next.
C21_EndTurnsAlternate ==
    /\ [](game.game_state.tag # "WaitingForPlayers" =>
             game.current_turn = 1 + (game.turn_number % 2))
    /\ [][last'.op \in {"Play", "Expand"} =>
            /\ last'.auth = (IF game.turn_number % 2 = 0 THEN game.player1
                                                        ELSE game.player2)
            /\ last'.auth # (IF game.turn_number % 2 = 0 THEN game.player2
                                                        ELSE game.player1)
            /\ IF last'.op = "Play" /\ last'.variant = "EndTurn"
               THEN game'.turn_number = game.turn_number + 1
               ELSE game'.turn_number = game.turn_number]_vars

\* Seat 1 and then seat 2 have ended a turn.
C21_Witness ==
    /\ game.turn_number = 2
    /\ last.op = "Play"
    /\ last.variant = "EndTurn"
    /\ last.auth = game.player2
    /\ game.current_turn = 1

\* C22 (checked under SpecLife). game_state is never Paused; a step that
\* changes it is either the second Join, taking WaitingForPlayers to Active, or
\* a Play call, taking Active to Finished; and once the game has left
\* WaitingForPlayers no Join call returns Ok.
C22_GameStateTransitions ==
    /\ [](game.game_state.tag \in {"WaitingForPlayers", "Active", "Finished"})
    /\ [](game.game_state.tag # "WaitingForPlayers" =>
             \A c \in SpecJoinCalls : ~JoinRun(c).ok)
    /\ [][game'.game_state # game.game_state =>
            \/ /\ game.game_state = WaitingForPlayers
               /\ game'.game_state = Active
               /\ last'.op = "Join"
               /\ game.player1 # NoKey
               /\ game.player2 = NoKey
               /\ game'.player2 = last'.auth
            \/ /\ game.game_state = Active
               /\ game'.game_state.tag = "Finished"
               /\ last'.op = "Play"]_vars

\* A Play call has just finished a game that two joins once made Active.
C22_Witness ==
    /\ game.game_state.tag = "Finished"
    /\ last.op = "Play"
    /\ game.player1 # NoKey
    /\ game.player2 # NoKey

\* C23 (checked under SpecTac). A MoveUnit that returns Ok on a unit goes to a
\* cell inside the grid that was empty and lies within movement_range of the
\* unit's position, the cell where the unit stands; it leaves that source cell
\* empty, and the destination cell holds what the source cell held: the same
\* tag, unit id and health, also when attacks had lowered that health.
C23_MoveCarriesCell ==
    [][(/\ last'.op = "Play"
        /\ last'.variant = "MoveUnit"
        /\ last'.u # 0
        /\ <<units[last'.u].x, units[last'.u].y>> \in DOMAIN zones[last'.z].grid
        /\ zones[last'.z].grid[<<units[last'.u].x, units[last'.u].y>>].unit_id
              = units[last'.u].unit_id)
       => LET u == units[last'.u]
              src == <<u.x, u.y>>
              dst == <<units'[last'.u].x, units'[last'.u].y>>
              z == zones[last'.z]
          IN /\ dst[1] < GridSize /\ dst[2] < GridSize
             /\ dst \notin DOMAIN z.grid
             /\ Abs(dst[1] - src[1]) + Abs(dst[2] - src[2]) <= u.movement_range
             /\ src \notin DOMAIN zones'[last'.z].grid
             /\ dst \in DOMAIN zones'[last'.z].grid
             /\ zones'[last'.z].grid[dst] = z.grid[src]]_vars

\* C24 (checked under SpecHigh). An InfectionSpread returns Ok only for a
\* player of faction Pathogen. When it does, infection_level becomes
\* min(100, infection_level + 5); an unowned target gets the acting player as
\* owner, is_controlled and zone_type Tissue, and the player's controlled_zones
\* goes up by 1; an owned target keeps its owner and zone_type, its energy
\* becomes max(0, energy - 50) and its nutrients max(0, nutrients - 30), and
\* controlled_zones stays.
C24_InfectionSpreadEffect ==
    /\ [](\A c \in HighExpandCalls :
             (c.expansion_type = "InfectionSpread" /\ ExpandRun(c).ok)
             => players[c.pr].faction = "Pathogen")
    /\ [][(last'.op = "Expand" /\ last'.variant = "InfectionSpread")
          => LET p == players[last'.p]
                 t == zones[last'.t]
                 p1 == players'[last'.p]
                 t1 == zones'[last'.t]
             IN /\ p.faction = "Pathogen"
                /\ game'.infection_level
                     = (IF game.infection_level + 5 > 100 THEN 100
                        ELSE game.infection_level + 5)
                /\ IF t.owner = NoKey
                   THEN /\ t1.owner = last'.auth
                        /\ t1.is_controlled
                        /\ t1.zone_type = "Tissue"
                        /\ p1.controlled_zones = p.controlled_zones + 1
                   ELSE /\ t1.owner = t.owner
                        /\ t1.zone_type = t.zone_type
                        /\ t1.energy = (IF t.energy > 50 THEN t.energy - 50 ELSE 0)
                        /\ t1.nutrients
                             = (IF t.nutrients > 30 THEN t.nutrients - 30 ELSE 0)
                        /\ p1.controlled_zones = p.controlled_zones]_vars

\* B has just spread onto A's zone, whose energy was already used up, with
\* infection_level at its cap.
C24_Witness ==
    /\ last.op = "Expand"
    /\ last.variant = "InfectionSpread"
    /\ zones[last.t].owner = "A"
    /\ zones[last.t].energy = 0
    /\ zones[last.t].nutrients < HighZones[last.t].nutrients
    /\ game.infection_level = 100

\* C25 (checked under SpecHigh). A ConquerZone returns Ok only when the acting
\* player owns the source, the target has an owner other than the acting
\* player, and the two zones are adjacent. When it does, the target's owner
\* becomes the acting player, the player's controlled_zones goes up by 1, the
\* target's energy, nutrients and unit_count are halved, rounding down, and
\* the level of the acting faction - infection_level for Pathogen,
\* immune_response_level for ImmuneSystem - becomes min(100, level + 3) while
\* the other level stays.
C25_ConquerZoneEffect ==
    /\ [](\A c \in HighExpandCalls :
             (c.expansion_type = "ConquerZone" /\ ExpandRun(c).ok)
             => /\ zones[c.st[1]].owner = c.authority
                /\ zones[c.st[2]].owner \notin {NoKey, c.authority}
                /\ Abs(zones[c.st[1]].x - zones[c.st[2]].x)
                     + Abs(zones[c.st[1]].y - zones[c.st[2]].y) = 1)
    /\ [][(last'.op = "Expand" /\ last'.variant = "ConquerZone")
          => LET p == players[last'.p]
                 t == zones[last'.t]
                 p1 == players'[last'.p]
                 t1 == zones'[last'.t]
                 Plus3(l) == IF l + 3 > 100 THEN 100 ELSE l + 3
             IN /\ zones[last'.z].owner = last'.auth
                /\ t.owner \notin {NoKey, last'.auth}
                /\ t1.owner = last'.auth
                /\ p1.controlled_zones = p.controlled_zones + 1
                /\ t1.energy = t.energy \div 2
                /\ t1.nutrients = t.nutrients \div 2
                /\ t1.unit_count = t.unit_count \div 2
                /\ IF p.faction = "Pathogen"
                   THEN /\ game'.infection_level = Plus3(game.infection_level)
                        /\ game'.immune_response_level = game.immune_response_level
                   ELSE /\ game'.immune_response_level
                             = Plus3(game.immune_response_level)
                        /\ game'.infection_level = game.infection_level]_vars

\* A has just conquered B's zone 1 with immune_response_level already at its
\* cap; the zone held one unit, and its energy was halved.
C25_Witness ==
    /\ last.op = "Expand"
    /\ last.variant = "ConquerZone"
    /\ last.auth = "A"
    /\ zones[last.t].owner = "A"
    /\ zones[last.t].energy = ZoneResourceCap \div 2
    /\ zones[last.t].unit_count = 0
    /\ DOMAIN zones[last.t].grid = {<<0, 0>>, <<1, 0>>}
    /\ game.immune_response_level = 100
    /\ players[1].controlled_zones = 2

\* C26 (checked under SpecHigh). infection_level and immune_response_level
\* are always within 0..100; a step that changes a level raises it, by 3 or by
\* 5, to no more than 100; no step lowers either level.
C26_LevelsClamped ==
    /\ [](/\ game.infection_level \in 0..MaxLevel
          /\ game.immune_response_level \in 0..MaxLevel)
    /\ [][/\ game'.infection_level >= game.infection_level
          /\ game'.immune_response_level >= game.immune_response_level
          /\ game'.infection_level
               \in {game.infection_level,
                    IF game.infection_level + 3 > 100 THEN 100
                    ELSE game.infection_level + 3,
                    IF game.infection_level + 5 > 100 THEN 100
                    ELSE game.infection_level + 5}
          /\ game'.immune_response_level
               \in {game.immune_response_level,
                    IF game.immune_response_level + 3 > 100 THEN 100
                    ELSE game.immune_response_level + 3,
                    IF game.immune_response_level + 5 > 100 THEN 100
                    ELSE game.immune_response_level + 5}
          /\ (last'.op = "Expand" /\ last'.variant = "ImmuneResponse")
             => game'.immune_response_level > game.immune_response_level
                \/ game.immune_response_level = 100]_vars

\* Both levels stand at 100 after an expansion made when its level was
\* already there.
C26_Witness ==
    /\ game.infection_level = 100
    /\ game.immune_response_level = 100
    /\ last.op = "Expand"
    /\ last.variant \in {"ImmuneResponse", "ConquerZone"}
    /\ last.auth = "A"
    /\ players[1].energy_reserves
         <= HighPlayers[1].energy_reserves
            - calculate_immune_response_cost(HighZones[2], HighZones[1])[1] * 2

\* C27 (checked under SpecLate). A MoveUnit, AttackPosition or
\* UseSpecialAbility call that hands in no unit returns the error UnitNotFound,
\* and no such call changes the game, the players, the zones or the units.
C27_UnitlessActionRejected ==
    /\ [](\A c \in LatePlayCalls :
             (c.action \in {"MoveUnit", "AttackPosition", "UseSpecialAbility"}
              /\ c.u = 0)
             => /\ ~PlayRun(c).ok
                /\ PlayRun(c).err = "UnitNotFound")
    /\ [][(/\ last'.op = "Play"
           /\ last'.variant \in {"MoveUnit", "AttackPosition", "UseSpecialAbility"}
           /\ last'.u = 0)
          => UNCHANGED <<game, players, zones, units>>]_vars

\* C28 (checked under SpecMid). The controlled_zones counter of each player in
\* the game equals the number of zones whose owner is that player, also after
\* a zone has changed hands through ConquerZone.
C28_CounterMatchesOwnedZones ==
    \A pr \in PlayerRecs :
        players[pr].player_key # NoKey
        => players[pr].controlled_zones
             = Cardinality({zr \in ZoneRecs :
                               zones[zr].owner = players[pr].player_key})

\* C29 (checked under SpecIds). After any sequence of SpawnUnit and
\* AttackPosition calls on a zone whose grid started empty with unit_count 0,
\* no two cells of the zone's grid that hold a combatant carry the same unit
\* id.
C29_UnitIdsUnique ==
    \A q1, q2 \in DOMAIN zones[1].grid :
        (/\ q1 # q2
         /\ zones[1].grid[q1].tag \in {"ImmuneCell", "Pathogen"}
         /\ zones[1].grid[q2].tag \in {"ImmuneCell", "Pathogen"})
        => zones[1].grid[q1].unit_id # zones[1].grid[q2].unit_id

\* C30 (checked under SpecTac). A MoveUnit, AttackPosition or
\* UseSpecialAbility call on a unit changes the game, a player, a zone or a
\* unit only if the Unit record's owner is the signer and its zone_id is that
\* of the zone handed in.
C30_UnitActionsNeedOwnUnit ==
    [][(/\ last'.op = "Play"
        /\ last'.variant \in {"MoveUnit", "AttackPosition", "UseSpecialAbility"}
        /\ last'.u # 0
        /\ <<game, players, zones, units>>' # <<game, players, zones, units>>)
       => /\ units[last'.u].owner = last'.auth
          /\ units[last'.u].zone_id = zones[last'.z].zone_id]_vars

\* C31 (checked under SpecCost). A SpawnUnit call by a player that joined on
\* a default Player record writes a cell of the player's own faction class: an
\* ImmuneCell for an ImmuneSystem player, a Pathogen for a Pathogen player.
C31_SpawnsOwnFactionOnly ==
    [][(last'.op = "Play" /\ last'.variant = "SpawnUnit")
       => \A q \in (DOMAIN zones'[last'.z].grid) \ (DOMAIN zones[last'.z].grid) :
             zones'[last'.z].grid[q].tag
               = (IF players[last'.p].faction = "ImmuneSystem"
                  THEN "ImmuneCell" ELSE "Pathogen")]_vars

====
